---------------------------- MODULE Spec2Model ----------------------------
(***************************************************************************)
(* State-machine model of the duckdb-ann Rust core (rust_lib/src):         *)
(*   index_manager.rs  InMemoryIndex (add, search), the INDEXES registry   *)
(*   provider.rs       Provider (vector store, adjacency store, count,     *)
(*                     entry points) and the callbacks the engine uses     *)
(* The graph engine (crate diskann: DiskANNIndex::insert / ::search,       *)
(* config::Builder, SearchParams) and disk_provider.rs are not part of the *)
(* sources at hand; they are modelled from the design document (sections   *)
(* 4.3, 4.4, 4.7) and act on the Provider only through its callbacks.      *)
(*                                                                         *)
(* f32 values are modelled by small integers (exactly representable, so    *)
(* sums and products of them are exact in f32 as well).                    *)
(***************************************************************************)
EXTENDS Integers, Sequences, FiniteSets, TLC

---------------------------------------------------------------------------
(* Bounds of the model *)

\* total number of add/search calls begun in one behaviour
MaxCalls == 3

\* registry calls (create, load, get, destroy, save) per behaviour
MaxRegOps == 4

\* serialize, from_bytes and compact calls per behaviour
MaxDetachedOps == 2

\* streaming_build calls per behaviour
MaxBuilds == 1

\* caller threads
Threads == {"t1", "t2"}

\* index instances that can be alive at once (allocation slots)
InstIds == {"i1", "i2"}

\* registry names and file paths
Names == {"x"}
Paths == {"a.diskann", "missing.diskann"}

NoInst == "none"
NoThread == "none"

---------------------------------------------------------------------------
(* Inputs *)

\* Vectors handed to add; <<1>> and <<1, 0, 0>> have the wrong dimension for
\* every index of the model (dimension 2).
GoodVectors == {<<2, 0>>, <<1, 0>>, <<-1, 0>>}
BadVectors == {<<1>>, <<1, 0, 0>>}
AllVectors == GoodVectors \cup BadVectors

\* the vectors concurrent callers add
ConcVectors == {<<1, 0>>, <<-1, 0>>, <<1>>}

\* (query, k, search_complexity) of a search
SearchInputs ==
    { <<q, k, 0>> : q \in {<<1, 0>>}, k \in {0, 1, 2, 3} }
      \cup {<<<<1, 0>>, 2, 1>>, <<<<0, 1>>, 1, 0>>, <<<<1>>, 1, 0>>, <<<<1, 0, 0>>, 0, 3>>}

\* the searches concurrent callers issue
ConcSearchInputs == {<<<<1, 0>>, 0, 0>>, <<<<1, 0>>, 2, 0>>}

\* (dimension, metric, max_degree R, build_complexity L_build, alpha) of an
\* index. alpha is the ratio alpha_num / alpha_den. engine_config is what
\* config::Builder::build() answers for (max_degree, default slack,
\* build_complexity, prune kind, alpha): a function of these immutable
\* parameters, which the binding layer forwards unvalidated.
ParamChoices ==
    { [dimension |-> 2, metric |-> m, max_degree |-> 2, build_complexity |-> 2,
       alpha_num |-> 6, alpha_den |-> 5, engine_config |-> c] :
         m \in {"L2", "InnerProduct"}, c \in {"valid", "rejected"} }

\* the parameters of create_index calls
RegParamChoices == {p \in ParamChoices : p.engine_config = "valid"}

\* the alpha argument of from_bytes with the engine's answer for the
\* configuration built from it: the design document asks for alpha >= 1
AlphaChoices ==
    { [alpha_num |-> 6, alpha_den |-> 5, engine_config |-> "valid"],
      [alpha_num |-> 1, alpha_den |-> 2, engine_config |-> "rejected"] }

\* the build_complexity argument of load_index calls: 0 keeps the file's
LoadComplexities == {0, 3}

---------------------------------------------------------------------------
(* State *)

VARIABLES
    INDEXES,          \* registry: name -> instance id (NoInst: unbound)
    kind,             \* instance -> "free" | "InMemory" | "Disk"
    params,           \* instance -> its immutable parameters
    vectors,          \* Provider.vectors: instance -> flat row-major f32 buffer
    adjacency,        \* Provider.adjacency: instance -> (id -> neighbor list)
    count,            \* Provider.count
    start_point_ids,  \* Provider.start_point_ids
    quantized,        \* Provider.quantized: the SQ8 storage (NoQuantized: None)
    index,            \* InMemoryIndex.index: is the Option Some?
    gate_readers,     \* threads holding index.read()
    gate_writer,      \* thread holding index.write() (NoThread: none)
    next_label,       \* InMemoryIndex.next_label
    fs,               \* path -> file content (a saved index, or "none")
    held,             \* thread -> the instance it holds a handle (Arc) to
    pc,               \* thread -> position in the call it is executing
    call,             \* thread -> the call's arguments
    local,            \* thread -> the call's local variables
    ret,              \* thread -> result of the thread's last finished call
    calls,            \* number of add/search calls begun so far
    reg_calls,        \* number of registry, serialization, compaction and
                      \* streaming build calls begun so far
    fetched,          \* history: instance -> labels handed out by fetch_add, in order
    returned,         \* history: instance -> labels returned by successful adds
    destroyed,        \* history: names that a destroy call has unbound
    snap              \* history: thread -> what the instance looked like when
                      \* the thread's call began (kept for observed calls only:
                      \* those of a caller that runs alone)

provider_vars == <<vectors, adjacency, count, start_point_ids, quantized>>
inst_vars == <<kind, params, vectors, adjacency, count, start_point_ids, quantized, index,
               gate_readers, gate_writer, next_label>>
thread_vars == <<held, pc, call, local, ret, calls, reg_calls>>
hist_vars == <<fetched, returned, destroyed, snap>>
vars == <<INDEXES, kind, params, vectors, adjacency, count, start_point_ids, quantized,
          index, gate_readers, gate_writer, next_label, fs, held, pc, call,
          local, ret, calls, reg_calls, fetched, returned, destroyed, snap>>

---------------------------------------------------------------------------
(* Sequence helpers *)

Min(a, b) == IF a <= b THEN a ELSE b
Max(a, b) == IF a >= b THEN a ELSE b

Range(s) == {s[j] : j \in DOMAIN s}

Take(s, m) == SubSeq(s, 1, Min(m, Len(s)))

RECURSIVE SumSeq(_)
SumSeq(s) == IF s = <<>> THEN 0 ELSE Head(s) + SumSeq(Tail(s))


\* the set of <<id, dist>> pairs as a sequence, ascending by (dist, id)
RECURSIVE SortPairs(_)
SortPairs(S) ==
    IF S = {} THEN <<>>
    ELSE LET m == CHOOSE x \in S :
                    \A y \in S : x[2] < y[2] \/ (x[2] = y[2] /\ x[1] <= y[1])
         IN  <<m>> \o SortPairs(S \ {m})

---------------------------------------------------------------------------
(* Distance kernel *)

\* index_manager.rs l2_distance: sum of squared differences
l2_distance(a, b) ==
    SumSeq([j \in 1..Min(Len(a), Len(b)) |-> (a[j] - b[j]) * (a[j] - b[j])])

\* index_manager.rs inner_product
inner_product(a, b) ==
    SumSeq([j \in 1..Min(Len(a), Len(b)) |-> a[j] * b[j]])

\* The engine's distance (design 4.3): squared L2, or the negated inner
\* product so that smaller is closer for both metrics.
EngineDistance(metric, a, b) ==
    IF metric = "L2" THEN l2_distance(a, b) ELSE 0 - inner_product(a, b)

---------------------------------------------------------------------------
(* Provider (provider.rs) *)

\* Provider::new: empty stores
EmptyProvider ==
    [vectors |-> <<>>, adjacency |-> <<>>, count |-> 0, start_point_ids |-> <<>>]

\* Provider::len
ProviderLen(i) == count[i]

\* the row write of insert_start_point and set_element: grow the flat buffer
\* with zeros to cover row id, then overwrite the row
WriteRow(vecs, dim, id, v) ==
    LET offset == id * dim
        grown  == IF Len(vecs) < offset + dim
                  THEN vecs \o [j \in 1..(offset + dim - Len(vecs)) |-> 0]
                  ELSE vecs
    IN  [j \in 1..Len(grown) |->
            IF j > offset /\ j <= offset + dim THEN v[j - offset] ELSE grown[j]]

\* adjacency.insert(id, AdjacencyList::new())
InsertEmptyAdjacency(adj, id) ==
    [k \in (DOMAIN adj) \cup {id} |-> IF k = id THEN <<>> ELSE adj[k]]

\* a count that no write raises
FetchMaxKeeps(c, id) == c

\* count.fetch_max(id + 1)
FetchMax(c, id) == Max(c, id + 1)

\* Provider::get_vector, full-precision branch: is the answer Some?
vector_present(i, id) ==
    id * params[i].dimension + params[i].dimension <= Len(vectors[i])

\* Provider::get_vector, full-precision branch: the row of a present id
get_vector(i, id) ==
    SubSeq(vectors[i], id * params[i].dimension + 1,
           id * params[i].dimension + params[i].dimension)

\* Inner.quantized is None
NoQuantized == [active |-> FALSE, data |-> <<>>, min |-> <<>>, scale |-> <<>>]

\* Provider::quantize_sq8, lines 169-209, for cnt >= 1 rows of width dim:
\* per-dimension min and max, scale = range if range > 0 else 1, each value
\* encoded as round((v - min) / scale * 255) clamped to 0..255
quantize_sq8(vecs, cnt, dim) ==
    LET col(d) == { vecs[k * dim + d] : k \in 0..(cnt - 1) }
        mins == [d \in 1..dim |-> CHOOSE x \in col(d) : \A y \in col(d) : x <= y]
        maxs == [d \in 1..dim |-> CHOOSE x \in col(d) : \A y \in col(d) : x >= y]
        scale == [d \in 1..dim |->
                    IF maxs[d] - mins[d] > 0 THEN maxs[d] - mins[d] ELSE 1]
        enc(j) == LET d == ((j - 1) % dim) + 1
                      num == (vecs[j] - mins[d]) * 255
                  IN  Min(255, Max(0, (2 * num + scale[d]) \div (2 * scale[d])))
    IN  [active |-> TRUE, data |-> [j \in 1..(cnt * dim) |-> enc(j)],
         min |-> mins, scale |-> scale]

\* an f32 value that is the fraction n / d (d > 0), in lowest terms
Fraction(n, d) ==
    LET RECURSIVE gcd(_, _)
        gcd(a, b) == IF b = 0 THEN a ELSE gcd(b, a % b)
        g == gcd(IF n < 0 THEN -n ELSE n, d)
    IN  <<n \div g, d \div g>>

\* a reader that tries the quantized store first and the f32 buffer after it
QuantizedFirst(i, id) ==
    LET dim == params[i].dimension
        offset == id * dim
        q == quantized[i]
    IN  IF q.active /\ offset + dim <= Len(q.data)
        THEN [some |-> TRUE,
              row |-> [d \in 1..dim |->
                         Fraction(q.data[offset + d] * q.scale[d] + 255 * q.min[d], 255)]]
        ELSE IF vector_present(i, id)
        THEN [some |-> TRUE, row |-> [d \in 1..dim |-> Fraction(get_vector(i, id)[d], 1)]]
        ELSE [some |-> FALSE, row |-> <<>>]

\* Provider::get_vector (lines 127-149) and ProviderAccessor::get_element
\* (lines 518-545) run the same two branches: the row from the f32 buffer
\* if it covers the id, else the row dequantized as q / 255 * scale + min if
\* the quantized buffer covers it, else nothing
FullPrecisionFirst(i, id) ==
    LET dim == params[i].dimension
        offset == id * dim
        q == quantized[i]
    IN  IF vector_present(i, id)
        THEN [some |-> TRUE, row |-> [d \in 1..dim |-> Fraction(get_vector(i, id)[d], 1)]]
        ELSE IF q.active /\ offset + dim <= Len(q.data)
        THEN [some |-> TRUE,
              row |-> [d \in 1..dim |->
                         Fraction(q.data[offset + d] * q.scale[d] + 255 * q.min[d], 255)]]
        ELSE [some |-> FALSE, row |-> <<>>]

\* Provider::get_vector with both branches: Some(row) or None
get_vector_sq8(i, id) == FullPrecisionFirst(i, id)

\* ProviderAccessor::get_element: Ok(row) or Err(ProviderError(id))
get_element(i, id) == FullPrecisionFirst(i, id)

\* Provider::get_neighbors with unwrap_or_default
get_neighbors(i, id) ==
    IF id \in DOMAIN adjacency[i] THEN adjacency[i][id] ELSE <<>>

---------------------------------------------------------------------------
(* The .diskann byte layout (file_format.rs), shared by save_index and     *)
(* serialize_to_bytes. A byte string is a sequence of little-endian 32-bit *)
(* words followed by tail (0..3) loose bytes.                              *)

\* b"DANN" read as a little-endian u32
MAGIC == 1313751364

VERSION == 2

HEADER_SIZE == 32

\* u32::MAX, the padding of an adjacency row (the all-ones word, written
\* here as the same 32 bits read as a signed number)
U32_MAX == -1

NoBytes == [words |-> <<>>, tail |-> 0]

\* data.len()
ByteLen(d) == 4 * Len(d.words) + d.tail

\* u32::from_le_bytes(data[off..off + 4]) for a word-aligned byte offset
WordAt(d, off) == d.words[(off \div 4) + 1]

\* the slice data[off..off + 4] is inside the byte string
InBounds(d, off) == off + 4 <= ByteLen(d)

metric_to_u8(m) == IF m = "InnerProduct" THEN 1 ELSE 0

\* FileHeader::metric_enum and the match in from_bytes: 1 is IP, all else L2
metric_enum(b) == IF b = 1 THEN "InnerProduct" ELSE "L2"

\* Provider::write_vectors_to slices vecs[..count * dimension]: the slice
\* panics when the buffer is shorter than that
WriteVectorsPanics(i) == count[i] * params[i].dimension > Len(vectors[i])

\* Provider::write_vectors_to: the first count * dimension values
write_vectors_to(i) == SubSeq(vectors[i], 1, count[i] * params[i].dimension)

\* one row of write_adjacency_to: the first max_degree neighbours, the rest
\* of the row filled with the sentinel
AdjacencyRow(i, id, max_degree) ==
    LET nb == get_neighbors(i, id)
        n  == Min(Len(nb), max_degree)
    IN  [j \in 1..max_degree |-> IF j <= n THEN nb[j] ELSE U32_MAX]

\* Provider::write_adjacency_to: the rows of ids from..count-1
RECURSIVE AdjacencyRowsFrom(_, _, _)
AdjacencyRowsFrom(i, from, max_degree) ==
    IF from >= count[i] THEN <<>>
    ELSE AdjacencyRow(i, from, max_degree) \o AdjacencyRowsFrom(i, from + 1, max_degree)

write_adjacency_to(i, max_degree) == AdjacencyRowsFrom(i, 0, max_degree)

\* file_format::write_index: header (8 words), entry points, vectors,
\* adjacency
write_index(i) ==
    [words |->
        << MAGIC, VERSION, count[i], params[i].dimension, params[i].max_degree,
           Len(start_point_ids[i]), metric_to_u8(params[i].metric),
           params[i].build_complexity >>
        \o start_point_ids[i]
        \o write_vectors_to(i)
        \o write_adjacency_to(i, params[i].max_degree),
     tail |-> 0]

\* the header fields as from_bytes reads them (lines 372-382)
Header(d) ==
    [num_vectors |-> WordAt(d, 8), dimension |-> WordAt(d, 12),
     max_degree |-> WordAt(d, 16), num_entry_points |-> WordAt(d, 20),
     metric |-> metric_enum(WordAt(d, 24)), build_complexity |-> WordAt(d, 28)]

\* FileHeader offsets
vectors_offset(h) == HEADER_SIZE + h.num_entry_points * 4
vectors_size(h) == h.num_vectors * h.dimension * 4
adjacency_offset(h) == vectors_offset(h) + vectors_size(h)
adjacency_size(h) == h.num_vectors * h.max_degree * 4
total_file_size(h) == adjacency_offset(h) + adjacency_size(h)

\* the words of the byte range [off, off + size)
WordsAt(d, off, size) == [j \in 1..(size \div 4) |-> WordAt(d, off + 4 * (j - 1))]

\* an adjacency row read to its full width, padding included
ReadRowFull(d, row_offset, j, deg) ==
    [n \in 1..(deg - j) |-> WordAt(d, row_offset + 4 * (j + n - 1))]

\* from_bytes lines 411-423: one adjacency row, read up to the first sentinel
RECURSIVE ReadRow(_, _, _, _)
ReadRow(d, row_offset, j, deg) ==
    IF j >= deg \/ WordAt(d, row_offset + 4 * j) = U32_MAX THEN <<>>
    ELSE <<WordAt(d, row_offset + 4 * j)>> \o ReadRow(d, row_offset, j + 1, deg)

\* from_bytes lines 410-423: adjacency_lists, as id -> neighbours
ReadAdjacency(d, h) ==
    [id \in 0..(h.num_vectors - 1) |->
        ReadRow(d, adjacency_offset(h) + id * h.max_degree * 4, 0, h.max_degree)]

---------------------------------------------------------------------------
(* Graph engine (crate diskann), from the design document, section 4.4.    *)
(* It reads and writes the Provider through the accessors of provider.rs.  *)

\* ProviderAccessor::get_element / NeighborHandle::get_neighbors succeed
\* for id: the row is covered by the f32 buffer and the adjacency key exists
ElementPresent(i, id) ==
    /\ vector_present(i, id)
    /\ id \in DOMAIN adjacency[i]

\* greedy best-first search: frontier is ascending by distance and holds at
\* most L entries; stop when no unvisited entry is left or when the closest
\* unvisited entry is farther than the k-th best
RECURSIVE GreedyLoop(_, _, _, _, _, _)
GreedyLoop(i, q, k, L, frontier, visited) ==
    LET unv == {j \in 1..Len(frontier) : frontier[j][1] \notin visited}
    IN  IF unv = {} THEN [ok |-> TRUE, list |-> frontier]
        ELSE
          LET j == CHOOSE x \in unv : \A y \in unv : x <= y
              c == frontier[j]
              inFrontier == {frontier[x][1] : x \in 1..Len(frontier)}
              fresh == Range(get_neighbors(i, c[1])) \ (visited \cup inFrontier)
          IN  IF k > 0 /\ Len(frontier) >= k /\ c[2] > frontier[k][2]
              THEN [ok |-> TRUE, list |-> frontier]
              ELSE IF \E m \in fresh \cup {c[1]} : ~ElementPresent(i, m)
              THEN [ok |-> FALSE, list |-> <<>>]
              ELSE
                LET new == {<<m, EngineDistance(params[i].metric, q, get_vector(i, m))>> :
                              m \in fresh}
                    merged == Take(SortPairs(Range(frontier) \cup new), L)
                IN  GreedyLoop(i, q, k, L, merged, visited \cup {c[1]})

\* seed the frontier with the entry points (glue::SearchExt::starting_points)
GreedySearch(i, q, k, L) ==
    LET eps == Range(start_point_ids[i])
    IN  IF \E e \in eps : ~ElementPresent(i, e)
        THEN [ok |-> FALSE, list |-> <<>>]
        ELSE GreedyLoop(i, q, k, L,
               Take(SortPairs({<<e, EngineDistance(params[i].metric, q, get_vector(i, e))>> :
                                 e \in eps}), L),
               {})

\* robust prune of the candidates cand (ascending <<id, dist to v>>): admit c
\* iff dist(c, v) * alpha <= dist(c, c2) for every admitted c2; stop at R
RECURSIVE PruneLoop(_, _, _)
PruneLoop(i, cand, out) ==
    IF cand = <<>> \/ Len(out) >= params[i].max_degree THEN out
    ELSE
      LET c == Head(cand)
          admit == \A x \in 1..Len(out) :
                      c[2] * params[i].alpha_num
                        <= EngineDistance(params[i].metric, get_vector(i, c[1]),
                                          get_vector(i, out[x])) * params[i].alpha_den
      IN  PruneLoop(i, Tail(cand), IF admit THEN Append(out, c[1]) ELSE out)

RobustPrune(i, cand) == PruneLoop(i, cand, <<>>)

\* steps (a)-(b) of the insert protocol for the node label with vector v:
\* the neighbors N(label) chosen among the nodes the greedy search visited
InsertNeighbors(i, label, v) ==
    LET found == GreedySearch(i, v, 0, params[i].build_complexity)
        cand  == SelectSeq(found.list, LAMBDA p : p[1] # label)
    IN  [ok |-> found.ok, list |-> IF found.ok THEN RobustPrune(i, cand) ELSE <<>>]

\* step (d) without the second prune: the list only grows
BackEdgeAppends(i, adj, m, label) == [adj EXCEPT ![m] = Append(adj[m], label)]

\* step (d) for neighbor m: append label to adjacency(m) (append_vector);
\* if the list now exceeds R, prune it again and store it (set_neighbors)
BackEdge(i, adj, m, label) ==
    LET appended == Append(adj[m], label)
        vm == get_vector(i, m)
        cand == SortPairs({<<x, EngineDistance(params[i].metric, vm, get_vector(i, x))>> :
                             x \in Range(appended)})
    IN  [adj EXCEPT ![m] = IF Len(appended) > params[i].max_degree
                           THEN RobustPrune(i, cand)
                           ELSE appended]

\* config::Builder::build() on the index parameters
BuilderBuild(p) == p.engine_config = "valid"

---------------------------------------------------------------------------
(* Initial states *)

NoParams ==
    [dimension |-> 0, metric |-> "L2", max_degree |-> 0, build_complexity |-> 0,
     alpha_num |-> 1, alpha_den |-> 1, engine_config |-> "rejected"]

NoAlpha == [alpha_num |-> 1, alpha_den |-> 1, engine_config |-> "rejected"]

NoCall ==
    [op |-> "none", vector |-> <<>>, k |-> 0, search_complexity |-> 0,
     name |-> "", params |-> NoParams, path |-> "", build_complexity |-> 0,
     target |-> NoInst, queue |-> <<>>, label_map |-> <<>>, deleted |-> {},
     data |-> [words |-> <<>>, tail |-> 0], alpha |-> NoAlpha]
NoFile == [exists |-> FALSE]
NoLocal == [label |-> 0, n |-> 0, k |-> 0, pending |-> <<>>, provider |-> NoFile]
NoRet == [kind |-> "none"]

\* what a thread can observe of an instance (for the history variable snap)
Observe(i) ==
    [vectors |-> vectors[i], adjacency |-> adjacency[i], count |-> count[i],
     start_point_ids |-> start_point_ids[i], index |-> index[i],
     next_label |-> next_label[i]]

NoSnap == [vectors |-> <<>>, adjacency |-> <<>>, count |-> 0,
           start_point_ids |-> <<>>, index |-> FALSE, next_label |-> 0]

\* every slot free, nothing bound, no thread in a call
InitCommon ==
    /\ INDEXES = [nm \in Names |-> NoInst]
    /\ vectors = [i \in InstIds |-> <<>>]
    /\ adjacency = [i \in InstIds |-> <<>>]
    /\ count = [i \in InstIds |-> 0]
    /\ start_point_ids = [i \in InstIds |-> <<>>]
    /\ quantized = [i \in InstIds |-> NoQuantized]
    /\ index = [i \in InstIds |-> FALSE]
    /\ gate_readers = [i \in InstIds |-> {}]
    /\ gate_writer = [i \in InstIds |-> NoThread]
    /\ next_label = [i \in InstIds |-> 0]
    /\ pc = [t \in Threads |-> "idle"]
    /\ call = [t \in Threads |-> NoCall]
    /\ local = [t \in Threads |-> NoLocal]
    /\ ret = [t \in Threads |-> NoRet]
    /\ calls = 0
    /\ reg_calls = 0
    /\ fetched = [i \in InstIds |-> <<>>]
    /\ returned = [i \in InstIds |-> <<>>]
    /\ destroyed = {}
    /\ snap = [t \in Threads |-> NoSnap]

\* InMemoryIndex::new_detached: one fresh detached index "i1", shared by all
\* caller threads through its handle
Init ==
    /\ InitCommon
    /\ \E p \in ParamChoices :
          params = [i \in InstIds |-> IF i = "i1" THEN p ELSE NoParams]
    /\ kind = [i \in InstIds |-> IF i = "i1" THEN "InMemory" ELSE "free"]
    /\ held = [t \in Threads |-> "i1"]
    /\ fs = [p \in Paths |-> NoFile]

---------------------------------------------------------------------------
(* InMemoryIndex::add (index_manager.rs 213-264), one action per step that *)
(* another thread can observe                                              *)

\* the call returns r; its local variables are gone
Finish(t, r) ==
    /\ pc' = [pc EXCEPT ![t] = "idle"]
    /\ ret' = [ret EXCEPT ![t] = r]
    /\ local' = [local EXCEPT ![t] = NoLocal]

Goto(t, where) == pc' = [pc EXCEPT ![t] = where]

\* every add works on the caller's handle
TargetHeld(t) == held[t]

\* the index an add in progress works on: the caller's handle, or inside
\* compact the new index (new_index.add, line 494), or inside
\* streaming_build the pilot or the secondary index
Target(t) ==
    IF call[t].op \in {"compact", "streaming_build"} THEN call[t].target ELSE held[t]

\* add returns r: to the caller, or inside compact to the loop of lines
\* 493-495, where an error leaves through the `?`
\* (streaming_build: pilot.add(vec)? of line 103 leaves with the error,
\* `let _ = stream_index.add(&vec)` of line 164 goes on whatever add returned)
AddFinish(t, r) ==
    IF call[t].op = "compact"
    THEN /\ pc' = [pc EXCEPT ![t] = IF r.kind = "err" THEN "compact_fail"
                                                      ELSE "compact_add"]
         /\ ret' = [ret EXCEPT ![t] = IF r.kind = "err" THEN r ELSE @]
         /\ local' = [local EXCEPT ![t] = NoLocal]
    ELSE IF call[t].op = "streaming_build"
    THEN LET fails == r.kind = "err" /\ call[t].phase = "pilot" IN
         /\ pc' = [pc EXCEPT ![t] = IF fails THEN "sg_fail"
                                    ELSE IF call[t].phase = "pilot" THEN "sg_pilot"
                                    ELSE "sg_stream"]
         /\ ret' = [ret EXCEPT ![t] = IF fails THEN r ELSE @]
         /\ local' = [local EXCEPT ![t] = NoLocal]
    ELSE Finish(t, r)

\* a load of next_label where the code has fetch_add: the counter stays
FetchAddNextLost(c) == c

\* next_label.fetch_add(1): the counter after the call
FetchAddNext(c) == c + 1

\* lines 214-220: vector.len() != self.dimension
AddDimensionMismatch(i, v) == Len(v) # params[i].dimension

\* the label fetched ahead of the dimension check
AddBeginFetchFirst(t, v, observe) ==
    LET i == held[t] IN
    /\ pc[t] = "idle"
    /\ i # NoInst
    /\ kind[i] = "InMemory"
    /\ calls < MaxCalls
    /\ calls' = calls + 1
    /\ call' = [call EXCEPT ![t] = [NoCall EXCEPT !.op = "add", !.vector = v]]
    /\ snap' = [snap EXCEPT ![t] = IF observe THEN Observe(i) ELSE @]
    /\ next_label' = [next_label EXCEPT ![i] = FetchAddNext(next_label[i])]
    /\ fetched' = [fetched EXCEPT ![i] = Append(@, next_label[i])]
    /\ IF AddDimensionMismatch(i, v)
       THEN Finish(t, [kind |-> "err", msg |-> "Expected dimension"])
       ELSE /\ local' = [local EXCEPT ![t] = [NoLocal EXCEPT !.label = next_label[i]]]
            /\ Goto(t, "add_fast")
            /\ UNCHANGED ret
    /\ UNCHANGED <<INDEXES, kind, params, provider_vars, index, gate_readers,
                   gate_writer, fs, reg_calls, held, returned, destroyed>>

\* lines 214-222: the dimension check, then the label is fetched
AddBegin(t, v, observe) ==
    LET i == held[t] IN
    /\ pc[t] = "idle"
    /\ i # NoInst
    /\ kind[i] = "InMemory"
    /\ calls < MaxCalls
    /\ calls' = calls + 1
    /\ call' = [call EXCEPT ![t] = [NoCall EXCEPT !.op = "add", !.vector = v]]
    /\ snap' = [snap EXCEPT ![t] = IF observe THEN Observe(i) ELSE @]
    /\ IF AddDimensionMismatch(i, v)
       THEN /\ Finish(t, [kind |-> "err", msg |-> "Expected dimension"])
            /\ UNCHANGED <<next_label, fetched>>
       ELSE /\ next_label' = [next_label EXCEPT ![i] = FetchAddNext(next_label[i])]
            /\ fetched' = [fetched EXCEPT ![i] = Append(@, next_label[i])]
            /\ local' = [local EXCEPT ![t] = [NoLocal EXCEPT !.label = next_label[i]]]
            /\ Goto(t, "add_fast")
            /\ UNCHANGED ret
    /\ UNCHANGED <<INDEXES, kind, params, provider_vars, index, gate_readers,
                   gate_writer, fs, reg_calls, held, returned, destroyed>>

\* the read guard kept over the request for the write lock
AddFastKeepsGuard(t) ==
    LET i == Target(t) IN
    /\ pc[t] = "add_fast"
    /\ gate_writer[i] = NoThread
    /\ gate_readers' = [gate_readers EXCEPT ![i] = @ \cup {t}]
    /\ Goto(t, IF index[i] THEN "set_vec" ELSE "add_slow")
    /\ UNCHANGED <<INDEXES, kind, params, provider_vars, index, gate_writer,
                   next_label, fs, reg_calls, held, call, local, ret, calls, hist_vars>>

\* lines 225-234: take index.read(); with the engine present go on to
\* index.insert under the read guard, else drop the guard
AddFast(t) ==
    LET i == Target(t) IN
    /\ pc[t] = "add_fast"
    /\ gate_writer[i] = NoThread
    /\ IF index[i]
       THEN /\ gate_readers' = [gate_readers EXCEPT ![i] = @ \cup {t}]
            /\ Goto(t, "set_vec")
       ELSE /\ Goto(t, "add_slow")
            /\ UNCHANGED gate_readers
    /\ UNCHANGED <<INDEXES, kind, params, provider_vars, index, gate_writer,
                   next_label, fs, reg_calls, held, call, local, ret, calls, hist_vars>>

\* the write lock taken, the Option not looked at again
AddSlowNoRecheck(t) ==
    LET i == Target(t) IN
    /\ pc[t] = "add_slow"
    /\ gate_writer[i] = NoThread
    /\ gate_readers[i] = {}
    /\ gate_writer' = [gate_writer EXCEPT ![i] = t]
    /\ Goto(t, "isp_vec")
    /\ UNCHANGED <<INDEXES, kind, params, provider_vars, index, gate_readers,
                   next_label, fs, reg_calls, held, call, local, ret, calls, hist_vars>>

\* lines 237-238, 244: take index.write() and look at the Option again
AddSlow(t) ==
    LET i == Target(t) IN
    /\ pc[t] = "add_slow"
    /\ gate_writer[i] = NoThread
    /\ gate_readers[i] = {}
    /\ gate_writer' = [gate_writer EXCEPT ![i] = t]
    /\ Goto(t, IF index[i] THEN "set_vec" ELSE "isp_vec")
    /\ UNCHANGED <<INDEXES, kind, params, provider_vars, index, gate_readers,
                   next_label, fs, reg_calls, held, call, local, ret, calls, hist_vars>>

\* Provider::insert_start_point (provider.rs 109-121), lines 111-117
InsertStartPointVec(t) ==
    LET i == Target(t) IN
    /\ pc[t] = "isp_vec"
    /\ vectors' = [vectors EXCEPT ![i] =
                      WriteRow(@, params[i].dimension, local[t].label, call[t].vector)]
    /\ Goto(t, "isp_adj")
    /\ UNCHANGED <<INDEXES, kind, params, adjacency, count, start_point_ids, quantized, index,
                   gate_readers, gate_writer, next_label, fs, reg_calls, held, call, local,
                   ret, calls, hist_vars>>

\* insert_start_point, line 118
InsertStartPointAdj(t) ==
    LET i == Target(t) IN
    /\ pc[t] = "isp_adj"
    /\ adjacency' = [adjacency EXCEPT ![i] = InsertEmptyAdjacency(@, local[t].label)]
    /\ Goto(t, "isp_count")
    /\ UNCHANGED <<INDEXES, kind, params, vectors, count, start_point_ids, quantized, index,
                   gate_readers, gate_writer, next_label, fs, reg_calls, held, call, local,
                   ret, calls, hist_vars>>

\* insert_start_point, line 119
InsertStartPointCount(t) ==
    LET i == Target(t) IN
    /\ pc[t] = "isp_count"
    /\ count' = [count EXCEPT ![i] = FetchMax(@, local[t].label)]
    /\ Goto(t, "isp_push")
    /\ UNCHANGED <<INDEXES, kind, params, vectors, adjacency, start_point_ids, quantized, index,
                   gate_readers, gate_writer, next_label, fs, reg_calls, held, call, local,
                   ret, calls, hist_vars>>

\* insert_start_point, line 120
InsertStartPointPush(t) ==
    LET i == Target(t) IN
    /\ pc[t] = "isp_push"
    /\ start_point_ids' = [start_point_ids EXCEPT ![i] = Append(@, local[t].label)]
    /\ Goto(t, "materialize")
    /\ UNCHANGED <<INDEXES, kind, params, vectors, adjacency, count, quantized, index,
                   gate_readers, gate_writer, next_label, fs, reg_calls, held, call, local,
                   ret, calls, hist_vars>>

\* lines 247-263: build the engine configuration; on success store the engine
\* in the Option and return the label, on failure return the error (the `?`);
\* either way the write guard is dropped
Materialize(t) ==
    LET i == Target(t) IN
    /\ pc[t] = "materialize"
    /\ gate_writer' = [gate_writer EXCEPT ![i] = NoThread]
    /\ IF BuilderBuild(params[i])
       THEN /\ index' = [index EXCEPT ![i] = TRUE]
            /\ returned' = [returned EXCEPT ![i] = Append(@, local[t].label)]
            /\ AddFinish(t, [kind |-> "label", label |-> local[t].label])
       ELSE /\ AddFinish(t, [kind |-> "err", msg |-> "DiskANN config error"])
            /\ UNCHANGED <<index, returned>>
    /\ UNCHANGED <<INDEXES, kind, params, provider_vars, gate_readers, next_label,
                   fs, reg_calls, held, call, calls, fetched, destroyed, snap>>

\* dropping the guard an add holds over index.insert: the read guard of the
\* fast path or the write guard of the slow path
ReleaseGate(t, i) ==
    /\ gate_readers' = [gate_readers EXCEPT ![i] = @ \ {t}]
    /\ gate_writer' = [gate_writer EXCEPT ![i] = IF @ = t THEN NoThread ELSE @]

\* index.insert, first callback: Provider::set_element (provider.rs 404-421),
\* lines 411-417
SetElementVec(t) ==
    LET i == Target(t) IN
    /\ pc[t] = "set_vec"
    /\ vectors' = [vectors EXCEPT ![i] =
                      WriteRow(@, params[i].dimension, local[t].label, call[t].vector)]
    /\ Goto(t, "set_adj")
    /\ UNCHANGED <<INDEXES, kind, params, adjacency, count, start_point_ids, quantized, index,
                   gate_readers, gate_writer, next_label, fs, reg_calls, held, call, local,
                   ret, calls, hist_vars>>

\* set_element, line 418
SetElementAdj(t) ==
    LET i == Target(t) IN
    /\ pc[t] = "set_adj"
    /\ adjacency' = [adjacency EXCEPT ![i] = InsertEmptyAdjacency(@, local[t].label)]
    /\ Goto(t, "set_count")
    /\ UNCHANGED <<INDEXES, kind, params, vectors, count, start_point_ids, quantized, index,
                   gate_readers, gate_writer, next_label, fs, reg_calls, held, call, local,
                   ret, calls, hist_vars>>

\* set_element, line 419
SetElementCount(t) ==
    LET i == Target(t) IN
    /\ pc[t] = "set_count"
    /\ count' = [count EXCEPT ![i] = FetchMax(@, local[t].label)]
    /\ Goto(t, "link")
    /\ UNCHANGED <<INDEXES, kind, params, vectors, adjacency, start_point_ids, quantized, index,
                   gate_readers, gate_writer, next_label, fs, reg_calls, held, call, local,
                   ret, calls, hist_vars>>

\* index.insert, steps (a)-(c): greedy search, robust prune, then
\* NeighborHandle::set_neighbors(label, N) (provider.rs 466-475). An accessor
\* error ends the insert: add maps it to "DiskANN insert error" (line 231/243).
EngineLink(t) ==
    LET i == Target(t)
        nb == InsertNeighbors(i, local[t].label, call[t].vector)
    IN
    /\ pc[t] = "link"
    /\ IF nb.ok /\ local[t].label \in DOMAIN adjacency[i]
       THEN /\ adjacency' = [adjacency EXCEPT ![i][local[t].label] = nb.list]
            /\ local' = [local EXCEPT ![t].pending = nb.list]
            /\ Goto(t, "backedge")
            /\ UNCHANGED <<gate_readers, gate_writer, ret>>
       ELSE /\ ReleaseGate(t, i)
            /\ AddFinish(t, [kind |-> "err", msg |-> "DiskANN insert error"])
            /\ UNCHANGED adjacency
    /\ UNCHANGED <<INDEXES, kind, params, vectors, count, start_point_ids, quantized, index,
                   next_label, fs, reg_calls, held, call, calls, hist_vars>>

\* index.insert, step (d) for the next selected neighbor:
\* NeighborHandle::append_vector (provider.rs 477-485), re-pruned when the
\* list exceeds R
EngineBackEdge(t) ==
    LET i == Target(t)
        m == Head(local[t].pending)
    IN
    /\ pc[t] = "backedge"
    /\ local[t].pending # <<>>
    /\ IF m \in DOMAIN adjacency[i]
       THEN /\ adjacency' = [adjacency EXCEPT ![i] = BackEdge(i, @, m, local[t].label)]
            /\ local' = [local EXCEPT ![t].pending = Tail(@)]
            /\ UNCHANGED <<pc, ret, gate_readers, gate_writer>>
       ELSE /\ ReleaseGate(t, i)
            /\ AddFinish(t, [kind |-> "err", msg |-> "DiskANN insert error"])
            /\ UNCHANGED adjacency
    /\ UNCHANGED <<INDEXES, kind, params, vectors, count, start_point_ids, quantized, index,
                   next_label, fs, reg_calls, held, call, calls, hist_vars>>

\* lines 232 / 263: index.insert is done; drop the guard, return Ok(label)
AddReturn(t) ==
    LET i == Target(t) IN
    /\ pc[t] = "backedge"
    /\ local[t].pending = <<>>
    /\ ReleaseGate(t, i)
    /\ returned' = [returned EXCEPT ![i] = Append(@, local[t].label)]
    /\ AddFinish(t, [kind |-> "label", label |-> local[t].label])
    /\ UNCHANGED <<INDEXES, kind, params, provider_vars, index, next_label, fs,
                   reg_calls, held, call, calls, fetched, destroyed, snap>>

---------------------------------------------------------------------------
(* InMemoryIndex::search (index_manager.rs 266-332)                        *)

\* lines 510-519
single_vector_distance(i, query) ==
    IF vector_present(i, 0)
    THEN IF params[i].metric = "L2"
         THEN l2_distance(query, get_vector(i, 0))
         ELSE 0 - inner_product(query, get_vector(i, 0))
    ELSE "f32::MAX"

\* lines 282-285: the single-node shortcut
SingleNodeResult(i, query) == <<<<0, single_vector_distance(i, query)>>>>

\* lines 295-300
LSearch(i, k, search_complexity) ==
    Max(k, IF search_complexity > 0 THEN search_complexity
           ELSE params[i].build_complexity)

\* a search that accepts a query of any length
QueryDimensionUnchecked(i, q) == FALSE

\* lines 267-273: query.len() != self.dimension
QueryDimensionMismatch(i, q) == Len(q) # params[i].dimension

\* the shortcuts without the n == 0 case
SearchShortcutNoEmpty(i, q, n) ==
    IF n = 1 THEN [hit |-> TRUE, list |-> SingleNodeResult(i, q)]
    ELSE [hit |-> FALSE, list |-> <<>>]

\* lines 275-285: n == 0 returns the empty list and n == 1 the single node,
\* both without looking at the engine
SearchShortcut(i, q, n) ==
    IF n = 0 THEN [hit |-> TRUE, list |-> <<>>]
    ELSE IF n = 1 THEN [hit |-> TRUE, list |-> SingleNodeResult(i, q)]
    ELSE [hit |-> FALSE, list |-> <<>>]

\* SearchParams::new(k, l_search, None): the answers the engine may give.
\* Its handling of k = 0 and of l_search = 0 is not fixed by the design
\* document, so both answers are allowed there.
SearchParamsAnswers(k, l) ==
    IF k = 0 \/ l = 0 THEN {TRUE, FALSE} ELSE {TRUE}

\* lines 267-285: dimension check, n = provider.len(), the empty and the
\* single-node cases
SearchBegin(t, q, k, sc, observe) ==
    LET i == held[t]
        n == ProviderLen(i)
    IN
    /\ pc[t] = "idle"
    /\ i # NoInst
    /\ kind[i] = "InMemory"
    /\ calls < MaxCalls
    /\ calls' = calls + 1
    /\ call' = [call EXCEPT ![t] =
                  [NoCall EXCEPT !.op = "search", !.vector = q, !.k = k,
                                 !.search_complexity = sc]]
    /\ snap' = [snap EXCEPT ![t] = IF observe THEN Observe(i) ELSE @]
    /\ IF QueryDimensionMismatch(i, q)
       THEN Finish(t, [kind |-> "err", msg |-> "Query dimension"])
       ELSE IF SearchShortcut(i, q, n).hit
       THEN Finish(t, [kind |-> "results", list |-> SearchShortcut(i, q, n).list])
       ELSE /\ Goto(t, "search_gate")
            /\ local' = [local EXCEPT ![t] = [NoLocal EXCEPT !.n = n, !.k = Min(k, n)]]
            /\ UNCHANGED ret
    /\ UNCHANGED <<INDEXES, inst_vars, fs, reg_calls, held, fetched, returned, destroyed>>

\* lines 287-331: under index.read(), fail if the Option is None, else run
\* the engine's search with (k, l_search) and copy result_count pairs out
SearchEngine(t) ==
    LET i == held[t]
        k == local[t].k
        l == LSearch(i, k, call[t].search_complexity)
        found == GreedySearch(i, call[t].vector, k, l)
    IN
    /\ pc[t] = "search_gate"
    /\ gate_writer[i] = NoThread
    /\ IF ~index[i]
       THEN Finish(t, [kind |-> "err", msg |-> "Index not initialized"])
       ELSE \E ok \in SearchParamsAnswers(k, l) :
              IF ~ok
              THEN Finish(t, [kind |-> "err", msg |-> "SearchParams error"])
              ELSE IF ~found.ok
              THEN Finish(t, [kind |-> "err", msg |-> "DiskANN search error"])
              ELSE Finish(t, [kind |-> "results", list |-> Take(found.list, k)])
    /\ UNCHANGED <<INDEXES, inst_vars, fs, reg_calls, held, call, calls, hist_vars>>

---------------------------------------------------------------------------
(* Concurrent callers of one detached index *)

AddStep(t) ==
    \/ AddFast(t)
    \/ AddSlow(t)
    \/ InsertStartPointVec(t)
    \/ InsertStartPointAdj(t)
    \/ InsertStartPointCount(t)
    \/ InsertStartPointPush(t)
    \/ Materialize(t)
    \/ SetElementVec(t)
    \/ SetElementAdj(t)
    \/ SetElementCount(t)
    \/ EngineLink(t)
    \/ EngineBackEdge(t)
    \/ AddReturn(t)

Next ==
    \/ \E t \in Threads, v \in ConcVectors : AddBegin(t, v, FALSE)
    \/ \E t \in Threads : AddStep(t)
    \/ \E t \in Threads, s \in ConcSearchInputs : SearchBegin(t, s[1], s[2], s[3], FALSE)
    \/ \E t \in Threads : SearchEngine(t)

Spec == Init /\ [][Next]_vars

\* a thread inside add or search can take its next step: it is past the
\* gate, or the gate it asks for is free (index.read() with no writer,
\* index.write() with no writer and no reader)
Runnable(t) ==
    \/ pc[t] \in {"add_fast", "search_gate"} /\ gate_writer[Target(t)] = NoThread
    \/ /\ pc[t] = "add_slow"
       /\ gate_writer[Target(t)] = NoThread
       /\ gate_readers[Target(t)] = {}
    \/ pc[t] \notin {"idle", "add_fast", "search_gate", "add_slow"}

\* thread t takes a step of the call it is in
Scheduled(t) ==
    /\ pc[t] # "idle"
    /\ <<pc[t], local[t]>>' # <<pc[t], local[t]>>

\* the callers are operating-system threads: one that can take its next
\* step is not left waiting forever (weak fairness of each thread's steps,
\* WF_vars(AddStep(t) \/ SearchEngine(t)), written with the steps' guard)
SpecFair ==
    /\ Init
    /\ [][Next]_vars
    /\ \A t \in Threads : ([]<>(~Runnable(t))) \/ ([]<><<Scheduled(t)>>_vars)

---------------------------------------------------------------------------
(* Callers adding to and searching one detached index whose R is 1 or 2,   *)
(* so that three insertions fill an adjacency list and overflow it         *)

DegreeParamChoices ==
    { [dimension |-> 2, metric |-> "L2", max_degree |-> r, build_complexity |-> 2,
       alpha_num |-> 6, alpha_den |-> 5, engine_config |-> "valid"] : r \in {1, 2} }

InitDegree ==
    /\ InitCommon
    /\ \E p \in DegreeParamChoices :
          params = [i \in InstIds |-> IF i = "i1" THEN p ELSE NoParams]
    /\ kind = [i \in InstIds |-> IF i = "i1" THEN "InMemory" ELSE "free"]
    /\ held = [t \in Threads |-> "i1"]
    /\ fs = [p \in Paths |-> NoFile]

SpecDegree == InitDegree /\ [][Next]_vars

---------------------------------------------------------------------------
(* One caller issuing add and search calls one after the other *)

NextSeq ==
    \/ \E v \in AllVectors : AddBegin("t1", v, TRUE)
    \/ AddStep("t1")
    \/ \E s \in SearchInputs : SearchBegin("t1", s[1], s[2], s[3], TRUE)
    \/ SearchEngine("t1")

SpecSeq == Init /\ [][NextSeq]_vars

---------------------------------------------------------------------------
(* The process-wide registry INDEXES (index_manager.rs 559-639). Instances *)
(* are reference counted (Arc): a slot is reclaimed when neither the       *)
(* registry nor a caller's handle refers to it.                            *)

\* a slot that holds no instance
FreeInstance ==
    [kind |-> "free", params |-> NoParams, vectors |-> <<>>, adjacency |-> <<>>,
     count |-> 0, start_point_ids |-> <<>>, index |-> FALSE, next_label |-> 0]

\* InMemoryIndex::new: Provider::new, index None, next_label 0
NewInMemoryIndex(p) ==
    [kind |-> "InMemory", params |-> p, vectors |-> EmptyProvider.vectors,
     adjacency |-> EmptyProvider.adjacency, count |-> EmptyProvider.count,
     start_point_ids |-> EmptyProvider.start_point_ids, index |-> FALSE,
     next_label |-> 0]

\* a .diskann file written by an earlier save of a one-vector L2 index
SampleFile ==
    [exists |-> TRUE, dimension |-> 2, metric |-> "L2", max_degree |-> 2,
     build_complexity |-> 2, num_vectors |-> 1, entry_points |-> <<0>>,
     vectors |-> <<1, 0>>, adjacency |-> (0 :> <<>>)]

\* what a reader of the .diskann layout finds in a well-formed byte string
FileOf(d) ==
    LET h == Header(d) IN
    [exists |-> TRUE, dimension |-> h.dimension, metric |-> h.metric,
     max_degree |-> h.max_degree, build_complexity |-> h.build_complexity,
     num_vectors |-> h.num_vectors,
     entry_points |-> WordsAt(d, HEADER_SIZE, h.num_entry_points * 4),
     vectors |-> WordsAt(d, vectors_offset(h), vectors_size(h)),
     adjacency |-> ReadAdjacency(d, h)]

\* DiskProvider::open: does the path name a well-formed index file?
DiskProviderOpens(path) == fs[path].exists

\* the DiskIndex built by load_index from the opened file; bc is the
\* caller's build_complexity, 0 meaning "take the file's"
NewDiskIndex(f, bc) ==
    [kind |-> "Disk",
     params |-> [dimension |-> f.dimension, metric |-> f.metric,
                 max_degree |-> f.max_degree,
                 build_complexity |-> IF bc > 0 THEN bc ELSE f.build_complexity,
                 alpha_num |-> 0, alpha_den |-> 1, engine_config |-> "rejected"],
     vectors |-> f.vectors, adjacency |-> f.adjacency, count |-> f.num_vectors,
     start_point_ids |-> f.entry_points, index |-> FALSE, next_label |-> 0]

\* the fields of instance slot i
Content(i) ==
    [kind |-> kind[i], params |-> params[i], vectors |-> vectors[i],
     adjacency |-> adjacency[i], count |-> count[i],
     start_point_ids |-> start_point_ids[i], index |-> index[i],
     next_label |-> next_label[i]]

\* Arc strong count of slot i is zero under registry reg and handles hld
Unreferenced(i, reg, hld) ==
    /\ \A nm \in Names : reg[nm] # i
    /\ \A t \in Threads : hld[t] # i

\* a call in progress works on instance i through an Arc of its own
\* (save_index line 598)
InUse(i) == \E t \in Threads : pc[t] # "idle" /\ call[t].target = i

\* the slots dropped by a step that leaves registry reg and handles hld
Dropped(reg, hld) ==
    {i \in InstIds : kind[i] # "free" /\ Unreferenced(i, reg, hld) /\ ~InUse(i)}

\* slot fresh (if any) receives content c, the slots in freed are reclaimed
InstancesBecome(fresh, c, freed) ==
    LET at(f, field, free) ==
          [j \in InstIds |-> IF j = fresh THEN c[field]
                             ELSE IF j \in freed THEN free ELSE f[j]]
    IN
    /\ kind' = at(kind, "kind", FreeInstance.kind)
    /\ params' = at(params, "params", FreeInstance.params)
    /\ vectors' = at(vectors, "vectors", FreeInstance.vectors)
    /\ adjacency' = at(adjacency, "adjacency", FreeInstance.adjacency)
    /\ count' = at(count, "count", FreeInstance.count)
    /\ start_point_ids' = at(start_point_ids, "start_point_ids",
                             FreeInstance.start_point_ids)
    /\ quantized' = [j \in InstIds |->
                       IF j = fresh \/ j \in freed THEN NoQuantized ELSE quantized[j]]
    /\ index' = at(index, "index", FreeInstance.index)
    /\ next_label' = at(next_label, "next_label", FreeInstance.next_label)
    /\ fetched' = [j \in InstIds |->
                     IF j = fresh \/ j \in freed THEN <<>> ELSE fetched[j]]
    /\ returned' = [j \in InstIds |->
                      IF j = fresh \/ j \in freed THEN <<>> ELSE returned[j]]
    /\ UNCHANGED <<gate_readers, gate_writer>>

\* the allocation of a new instance
FreeSlot == CHOOSE i \in InstIds : kind[i] = "free"

\* a caller at rest enters a registry function with arguments c
RegCall(t, c) ==
    /\ pc[t] = "idle"
    /\ reg_calls < MaxRegOps
    /\ reg_calls' = reg_calls + 1
    /\ call' = [call EXCEPT ![t] = c]

AlreadyExists == [kind |-> "err", msg |-> "already exists"]
NotFound == [kind |-> "err", msg |-> "not found"]
Done == [kind |-> "ok"]

\* an existence check that never finds the name
ContainsKeyNever(nm) == FALSE

\* create_index line 567-569 and load_index line 614-616:
\* INDEXES.contains_key(name)
ContainsKey(nm) == INDEXES[nm] # NoInst

\* INDEXES.insert(name, Arc::new(..)) with instance content c: the name is
\* bound to the new instance; a value the map held before is dropped
RegistryInsert(t, nm, c) ==
    LET reg == [INDEXES EXCEPT ![nm] = FreeSlot] IN
    /\ \E i \in InstIds : kind[i] = "free"
    /\ INDEXES' = reg
    /\ InstancesBecome(FreeSlot, c, Dropped(reg, held))
    /\ Finish(t, Done)
    /\ UNCHANGED <<fs, held, call, calls, reg_calls, destroyed, snap>>

\* create_index lines 567-569: the existence check
CreateCheck(t, nm, p) ==
    /\ RegCall(t, [NoCall EXCEPT !.op = "create", !.name = nm, !.params = p])
    /\ IF ContainsKey(nm)
       THEN Finish(t, AlreadyExists)
       ELSE /\ Goto(t, "create_insert")
            /\ UNCHANGED <<ret, local>>
    /\ UNCHANGED <<INDEXES, inst_vars, fs, held, calls, hist_vars>>

\* create_index lines 570-579: build the index and insert it
CreateInsert(t) ==
    /\ pc[t] = "create_insert"
    /\ RegistryInsert(t, call[t].name, NewInMemoryIndex(call[t].params))

\* the removed instance reclaimed although a caller still holds it
DestroyDropsHeld(old, reg) == {old}

\* the removed Arc is dropped: the instance goes when no handle is left
DestroyDrops(old, reg) == Dropped(reg, held)

\* destroy_index lines 582-587: remove the name and drop the removed Arc

DestroyIndex(t, nm) ==
    LET reg == [INDEXES EXCEPT ![nm] = NoInst] IN
    /\ RegCall(t, [NoCall EXCEPT !.op = "destroy", !.name = nm])
    /\ IF ~ContainsKey(nm)
       THEN /\ Finish(t, NotFound)
            /\ UNCHANGED <<INDEXES, inst_vars, hist_vars>>
       ELSE /\ INDEXES' = reg
            /\ InstancesBecome(NoInst, FreeInstance, DestroyDrops(INDEXES[nm], reg))
            /\ destroyed' = destroyed \cup {nm}
            /\ Finish(t, Done)
            /\ UNCHANGED snap
    /\ UNCHANGED <<fs, held, calls>>

\* get_index lines 589-594: clone the Arc bound to the name
GetIndex(t, nm) ==
    /\ held[t] = NoInst
    /\ RegCall(t, [NoCall EXCEPT !.op = "get", !.name = nm])
    /\ IF ~ContainsKey(nm)
       THEN /\ Finish(t, NotFound)
            /\ UNCHANGED held
       ELSE /\ held' = [held EXCEPT ![t] = INDEXES[nm]]
            /\ Finish(t, [kind |-> "handle", instance |-> INDEXES[nm]])
    /\ UNCHANGED <<INDEXES, inst_vars, fs, calls, hist_vars>>

\* the caller drops its Arc<ManagedIndex>
Release(t) ==
    LET hld == [held EXCEPT ![t] = NoInst] IN
    /\ pc[t] = "idle"
    /\ held[t] # NoInst
    /\ held' = hld
    /\ InstancesBecome(NoInst, FreeInstance, Dropped(INDEXES, hld))
    /\ UNCHANGED <<INDEXES, fs, pc, call, local, ret, calls, reg_calls,
                   destroyed, snap>>

\* load_index lines 614-619: the existence check, then DiskProvider::open
LoadCheck(t, nm, path, bc) ==
    /\ RegCall(t, [NoCall EXCEPT !.op = "load", !.name = nm, !.path = path,
                                 !.build_complexity = bc])
    /\ IF ContainsKey(nm)
       THEN Finish(t, AlreadyExists)
       ELSE IF ~DiskProviderOpens(path)
       THEN Finish(t, [kind |-> "err", msg |-> "Failed to open"])
       ELSE /\ Goto(t, "load_insert")
            /\ local' = [local EXCEPT ![t] = [NoLocal EXCEPT !.provider = fs[path]]]
            /\ UNCHANGED ret
    /\ UNCHANGED <<INDEXES, inst_vars, fs, held, calls, hist_vars>>

\* load_index lines 621-638: build the DiskIndex and insert it
LoadInsert(t) ==
    /\ pc[t] = "load_insert"
    /\ RegistryInsert(t, call[t].name,
                      NewDiskIndex(local[t].provider, call[t].build_complexity))

\* ManagedIndex::add lines 85-90 on a disk-backed index
AddReadOnly(t, v) ==
    LET i == held[t] IN
    /\ pc[t] = "idle"
    /\ i # NoInst
    /\ kind[i] = "Disk"
    /\ calls < MaxCalls
    /\ calls' = calls + 1
    /\ call' = [call EXCEPT ![t] = [NoCall EXCEPT !.op = "add", !.vector = v]]
    /\ Finish(t, [kind |-> "err", msg |-> "Cannot add to read-only disk index"])
    /\ UNCHANGED <<INDEXES, inst_vars, fs, held, reg_calls, hist_vars>>

\* a save that takes every index for an in-memory one
is_read_only_never(i) == FALSE

\* ManagedIndex::is_read_only, the Disk arm of the match in save_index
is_read_only(i) == kind[i] = "Disk"

\* save_index lines 597-602: get_index, refuse a disk-backed index, else
\* File::create, which leaves an empty file at the path
SaveOpen(t, nm, path) ==
    /\ RegCall(t, [NoCall EXCEPT !.op = "save", !.name = nm, !.path = path,
                                 !.target = INDEXES[nm]])
    /\ IF ~ContainsKey(nm)
       THEN /\ Finish(t, NotFound)
            /\ UNCHANGED fs
       ELSE IF is_read_only(INDEXES[nm])
       THEN /\ Finish(t, [kind |-> "err", msg |-> "Cannot save a disk-backed index"])
            /\ UNCHANGED fs
       ELSE /\ fs' = [fs EXCEPT ![path] = NoFile]
            /\ Goto(t, "save_write")
            /\ UNCHANGED <<ret, local>>
    /\ UNCHANGED <<INDEXES, inst_vars, held, calls, hist_vars>>

\* save_index lines 603-606: write_index into the file, then the Arc taken
\* by get_index is dropped
SaveWrite(t) ==
    LET i == call[t].target
        last == Unreferenced(i, INDEXES, held)
                  /\ \A u \in Threads \ {t} : pc[u] = "idle" \/ call[u].target # i
    IN
    /\ pc[t] = "save_write"
    /\ IF WriteVectorsPanics(i)
       THEN /\ Goto(t, "aborted")
            /\ UNCHANGED <<fs, ret, local, inst_vars, fetched, returned>>
       ELSE /\ fs' = [fs EXCEPT ![call[t].path] = FileOf(write_index(i))]
            /\ Finish(t, Done)
            /\ InstancesBecome(NoInst, FreeInstance, IF last THEN {i} ELSE {})
    /\ UNCHANGED <<INDEXES, held, call, calls, reg_calls, destroyed, snap>>

---------------------------------------------------------------------------
(* One caller using the registry: create, load, get, destroy, and add and  *)
(* search through the handle it holds                                      *)

InitRegistry ==
    /\ InitCommon
    /\ params = [i \in InstIds |-> NoParams]
    /\ kind = [i \in InstIds |-> "free"]
    /\ held = [t \in Threads |-> NoInst]
    /\ fs = [p \in Paths |-> IF p = "a.diskann" THEN SampleFile ELSE NoFile]

NextRegistry ==
    \/ \E nm \in Names, p \in RegParamChoices : CreateCheck("t1", nm, p)
    \/ CreateInsert("t1")
    \/ \E nm \in Names : DestroyIndex("t1", nm)
    \/ \E nm \in Names : GetIndex("t1", nm)
    \/ Release("t1")
    \/ \E nm \in Names, path \in Paths, bc \in LoadComplexities :
          LoadCheck("t1", nm, path, bc)
    \/ LoadInsert("t1")
    \/ \E nm \in Names, path \in Paths : SaveOpen("t1", nm, path)
    \/ SaveWrite("t1")
    \/ \E v \in ConcVectors : AddBegin("t1", v, FALSE)
    \/ \E v \in ConcVectors : AddReadOnly("t1", v)
    \/ AddStep("t1")
    \/ \E s \in ConcSearchInputs : SearchBegin("t1", s[1], s[2], s[3], FALSE)
    \/ SearchEngine("t1")

SpecRegistry == InitRegistry /\ [][NextRegistry]_vars

\* two callers of the registry at once
NextRegistryConcurrent ==
    \E t \in Threads :
       \/ \E nm \in Names, p \in RegParamChoices : CreateCheck(t, nm, p)
       \/ CreateInsert(t)
       \/ \E nm \in Names, path \in Paths, bc \in LoadComplexities :
             LoadCheck(t, nm, path, bc)
       \/ LoadInsert(t)
       \/ \E nm \in Names : DestroyIndex(t, nm)
       \/ \E nm \in Names : GetIndex(t, nm)
       \/ Release(t)

SpecRegistryConcurrent == InitRegistry /\ [][NextRegistryConcurrent]_vars

---------------------------------------------------------------------------
(* Detached indexes: serialize_to_bytes, from_bytes and compact            *)
(* (index_manager.rs 352-498), with the handles of ffi.rs 497-760          *)

\* a rebuilt index that starts its labels over
RebuiltNextLabelZero(h) == 0

\* from_bytes line 461: next_label of the rebuilt index
RebuiltNextLabel(h) == h.num_vectors

\* InMemoryIndex::from_bytes (lines 360-463) on byte string d with the
\* alpha argument a: an error, a panic (a slice out of range), or the
\* content of the index it builds. The entry points are sliced out (line
\* 389) before any length check covers them.
from_bytes(d, a) ==
    IF ByteLen(d) < HEADER_SIZE
    THEN [kind |-> "err", msg |-> "Data too small for header"]
    ELSE IF WordAt(d, 0) # MAGIC
    THEN [kind |-> "err", msg |-> "Invalid magic bytes"]
    ELSE IF WordAt(d, 4) # VERSION
    THEN [kind |-> "err", msg |-> "Unsupported version"]
    ELSE
      LET h == Header(d)
          p == [dimension |-> h.dimension, metric |-> h.metric,
                max_degree |-> h.max_degree,
                build_complexity |-> h.build_complexity,
                alpha_num |-> a.alpha_num, alpha_den |-> a.alpha_den,
                engine_config |-> a.engine_config]
      IN
      IF \E e \in 0..(h.num_entry_points - 1) : ~InBounds(d, HEADER_SIZE + e * 4)
      THEN [kind |-> "panic"]
      ELSE IF ByteLen(d) < vectors_offset(h) + vectors_size(h)
      THEN [kind |-> "err", msg |-> "Data too small for vectors"]
      ELSE IF ByteLen(d) < adjacency_offset(h) + adjacency_size(h)
      THEN [kind |-> "err", msg |-> "Data too small for adjacency"]
      ELSE IF ~BuilderBuild(p)
      THEN [kind |-> "err", msg |-> "DiskANN config error"]
      ELSE [kind |-> "ok",
            content |->
              [kind |-> "InMemory", params |-> p,
               vectors |-> WordsAt(d, vectors_offset(h), vectors_size(h)),
               adjacency |-> ReadAdjacency(d, h),
               count |-> h.num_vectors,
               start_point_ids |-> WordsAt(d, HEADER_SIZE, h.num_entry_points * 4),
               index |-> TRUE,
               next_label |-> RebuiltNextLabel(h)]]

\* byte strings a caller can hand to from_bytes, given bytes d that
\* serialize_to_bytes returned: d itself, d with another magic or version,
\* d cut after the header, d less its last word, d with loose bytes left
\* of its last word, and strings shorter than a header
BadMagic(d) == [d EXCEPT !.words[1] = 0]
BadVersion(d) == [d EXCEPT !.words[2] = VERSION + 1]
CutTo(d, nwords, tail) == [words |-> SubSeq(d.words, 1, nwords), tail |-> tail]

DataChoices(d) ==
    { d, BadMagic(d), BadVersion(d),
      CutTo(d, 8, 0), CutTo(d, 8, 3), CutTo(d, 7, 3), CutTo(d, 1, 0),
      CutTo(d, Len(d.words) - 1, 0), CutTo(d, Len(d.words) - 1, 2) }

\* a caller at rest enters a call on a detached index
DetachedCall(t, c) ==
    /\ pc[t] = "idle"
    /\ held[t] # NoInst
    /\ kind[held[t]] = "InMemory"
    /\ reg_calls < MaxDetachedOps
    /\ reg_calls' = reg_calls + 1
    /\ call' = [call EXCEPT ![t] = c]

\* diskann_detached_serialize / serialize_to_bytes (lines 352-357)
SerializeToBytes(t) ==
    LET i == held[t] IN
    /\ DetachedCall(t, [NoCall EXCEPT !.op = "serialize"])
    /\ IF WriteVectorsPanics(i)
       THEN /\ Goto(t, "aborted")
            /\ UNCHANGED <<ret, local>>
       ELSE Finish(t, [kind |-> "bytes", data |-> write_index(i), of |-> i])
    /\ UNCHANGED <<INDEXES, inst_vars, fs, held, calls, hist_vars>>

\* serialize_to_bytes while other threads add: write_index in the steps
\* between which an add can be seen. Line 90 of file_format.rs: the entry
\* points are read
WriteIndexBegin(t) ==
    LET i == held[t] IN
    /\ DetachedCall(t, [NoCall EXCEPT !.op = "serialize",
                                      !.queue = start_point_ids[i]])
    /\ Goto(t, "wi_header")
    /\ UNCHANGED <<INDEXES, inst_vars, fs, held, local, ret, calls, hist_vars>>

\* write_index lines 91-110: provider.len() is read, the header and the
\* entry points are written
WriteIndexHeader(t) ==
    LET i == held[t] IN
    /\ pc[t] = "wi_header"
    /\ call' = [call EXCEPT ![t].data =
                  [words |-> << MAGIC, VERSION, ProviderLen(i), params[i].dimension,
                                params[i].max_degree, Len(call[t].queue),
                                metric_to_u8(params[i].metric),
                                params[i].build_complexity >>
                             \o call[t].queue,
                   tail |-> 0]]
    /\ Goto(t, "wi_vectors")
    /\ UNCHANGED <<INDEXES, inst_vars, fs, held, local, ret, calls, reg_calls,
                   hist_vars>>

\* write_index line 113: write_vectors_to loads count and writes that many
\* rows
WriteIndexVectors(t) ==
    LET i == held[t] IN
    /\ pc[t] = "wi_vectors"
    /\ IF WriteVectorsPanics(i)
       THEN /\ Goto(t, "aborted")
            /\ UNCHANGED call
       ELSE /\ call' = [call EXCEPT ![t].data.words = @ \o write_vectors_to(i)]
            /\ Goto(t, "wi_adjacency")
    /\ UNCHANGED <<INDEXES, inst_vars, fs, held, local, ret, calls, reg_calls,
                   hist_vars>>

\* write_index line 116: write_adjacency_to loads count and writes that
\* many rows; serialize_to_bytes returns the buffer
WriteIndexAdjacency(t) ==
    LET i == held[t] IN
    /\ pc[t] = "wi_adjacency"
    /\ Finish(t, [kind |-> "bytes",
                  data |-> [call[t].data EXCEPT
                              !.words = @ \o write_adjacency_to(i, params[i].max_degree)],
                  of |-> i])
    /\ UNCHANGED <<INDEXES, inst_vars, fs, held, call, calls, reg_calls, hist_vars>>

NextSerializeConcurrent ==
    \/ \E t \in Threads, v \in ConcVectors : AddBegin(t, v, FALSE)
    \/ \E t \in Threads : AddStep(t)
    \/ \E t \in Threads : WriteIndexBegin(t)
    \/ \E t \in Threads : WriteIndexHeader(t)
    \/ \E t \in Threads : WriteIndexVectors(t)
    \/ \E t \in Threads : WriteIndexAdjacency(t)

SpecSerializeConcurrent == Init /\ [][NextSerializeConcurrent]_vars

\* diskann_detached_deserialize / from_bytes: the new index is boxed and its
\* handle returned; a panic ends the process
FromBytes(t, d, a) ==
    LET o == from_bytes(d, a) IN
    /\ DetachedCall(t, [NoCall EXCEPT !.op = "from_bytes", !.data = d, !.alpha = a])
    /\ \E i \in InstIds : kind[i] = "free"
    /\ CASE o.kind = "panic" ->
              /\ Goto(t, "aborted")
              /\ UNCHANGED <<ret, local, inst_vars, fetched, returned>>
         [] o.kind = "err" ->
              /\ Finish(t, o)
              /\ UNCHANGED <<inst_vars, fetched, returned>>
         [] o.kind = "ok" ->
              /\ InstancesBecome(FreeSlot, o.content, {})
              /\ Finish(t, [kind |-> "index", instance |-> FreeSlot])
    /\ UNCHANGED <<INDEXES, fs, held, calls, destroyed, snap>>


\* the deleted-label sets handed to compact; 7 is a label no index holds
DeletedChoices == { {}, {0}, {1}, {0, 2}, {1, 7} }

\* a scan that keeps each kept vector's old label as its new label
CompactScanKeepsLabels(i, deleted, from, acc) ==
    LET kept == SelectSeq([k \in 1..ProviderLen(i) |-> k - 1],
                          LAMBDA l : l \notin deleted) IN
    [vectors |-> [k \in 1..Len(kept) |-> get_vector(i, kept[k])],
     label_map |-> [k \in 1..Len(kept) |-> <<kept[k], kept[k]>>]]

\* a scan that does not look at the deleted set
CompactScanIgnoresDeleted(i, deleted, from, acc) ==
    LET kept == [k \in 1..ProviderLen(i) |-> k - 1] IN
    [vectors |-> [k \in 1..Len(kept) |-> get_vector(i, kept[k])],
     label_map |-> [k \in 1..Len(kept) |-> <<kept[k], k - 1>>]]

\* compact lines 474-483: the loop over old_label from `from` up to count,
\* acc holding the vectors and the label_map gathered so far
RECURSIVE CompactScan(_, _, _, _)
CompactScan(i, deleted, from, acc) ==
    IF from >= ProviderLen(i)
    THEN acc
    ELSE IF from \in deleted \/ ~vector_present(i, from)
    THEN CompactScan(i, deleted, from + 1, acc)
    ELSE CompactScan(i, deleted, from + 1,
                     [vectors |-> Append(acc.vectors, get_vector(i, from)),
                      label_map |-> Append(acc.label_map,
                                           <<from, Len(acc.vectors)>>)])

\* compact lines 470-491: the kept vectors and the label map are gathered
\* and the new detached index is made with the source's parameters
CompactBegin(t, deleted) ==
    LET i == held[t]
        s == CompactScan(i, deleted, 0, [vectors |-> <<>>, label_map |-> <<>>])
    IN
    /\ \E j \in InstIds : kind[j] = "free"
    /\ DetachedCall(t, [NoCall EXCEPT !.op = "compact", !.target = FreeSlot,
                                      !.deleted = deleted, !.queue = s.vectors,
                                      !.label_map = s.label_map])
    /\ InstancesBecome(FreeSlot, NewInMemoryIndex(params[i]), {})
    /\ Goto(t, "compact_add")
    /\ UNCHANGED <<INDEXES, fs, held, local, ret, calls, destroyed, snap>>

\* compact lines 493-497: the next kept vector enters new_index.add (lines
\* 214-222 of add), or the loop is over and the pair is returned
CompactAdd(t) ==
    LET j == call[t].target IN
    /\ pc[t] = "compact_add"
    /\ IF call[t].queue = <<>>
       THEN /\ Finish(t, [kind |-> "compacted", instance |-> j,
                          label_map |-> call[t].label_map])
            /\ UNCHANGED <<call, next_label, fetched>>
       ELSE /\ call' = [call EXCEPT ![t].vector = Head(call[t].queue),
                                    ![t].queue = Tail(call[t].queue)]
            /\ IF AddDimensionMismatch(j, Head(call[t].queue))
               THEN /\ AddFinish(t, [kind |-> "err", msg |-> "Expected dimension"])
                    /\ UNCHANGED <<next_label, fetched>>
               ELSE /\ next_label' = [next_label EXCEPT ![j] = FetchAddNext(next_label[j])]
                    /\ fetched' = [fetched EXCEPT ![j] = Append(@, next_label[j])]
                    /\ local' = [local EXCEPT ![t] = [NoLocal EXCEPT !.label = next_label[j]]]
                    /\ Goto(t, "add_fast")
                    /\ UNCHANGED ret
    /\ UNCHANGED <<INDEXES, kind, params, provider_vars, index, gate_readers,
                   gate_writer, fs, held, calls, reg_calls, returned, destroyed,
                   snap>>

\* compact line 494, the `?`: compact returns the error of add and the new
\* index is dropped with it
CompactFail(t) ==
    /\ pc[t] = "compact_fail"
    /\ InstancesBecome(NoInst, FreeInstance, {call[t].target})
    /\ Goto(t, "idle")
    /\ UNCHANGED <<INDEXES, fs, held, call, local, ret, calls, reg_calls,
                   destroyed, snap>>

\* the caller goes on with another of its handles
UseHandle(t, i) ==
    /\ pc[t] = "idle"
    /\ kind[i] = "InMemory"
    /\ held[t] # i
    /\ held' = [held EXCEPT ![t] = i]
    /\ UNCHANGED <<INDEXES, inst_vars, fs, pc, call, local, ret, calls,
                   reg_calls, hist_vars>>

\* diskann_free_detached (ffi.rs 534-538)
FreeDetached(t, i) ==
    /\ pc[t] = "idle"
    /\ kind[i] = "InMemory"
    /\ InstancesBecome(NoInst, FreeInstance, {i})
    /\ held' = [held EXCEPT ![t] = IF @ = i THEN NoInst ELSE @]
    /\ UNCHANGED <<INDEXES, fs, pc, call, local, ret, calls, reg_calls,
                   destroyed, snap>>

\* the byte strings the caller has at hand for from_bytes
CallerData(t) ==
    IF ret[t].kind = "bytes" THEN DataChoices(ret[t].data)
    ELSE { [words |-> <<MAGIC, VERSION>>, tail |-> 0] }

\* one caller working on detached indexes through their handles
NextDetached ==
    \/ \E v \in ConcVectors : AddBegin("t1", v, FALSE)
    \/ AddStep("t1")
    \/ \E s \in ConcSearchInputs : SearchBegin("t1", s[1], s[2], s[3], FALSE)
    \/ SearchEngine("t1")
    \/ SerializeToBytes("t1")
    \/ \E d \in CallerData("t1"), a \in AlphaChoices : FromBytes("t1", d, a)
    \/ \E deleted \in DeletedChoices : CompactBegin("t1", deleted)
    \/ CompactAdd("t1")
    \/ CompactFail("t1")
    \/ \E i \in InstIds : UseHandle("t1", i)
    \/ \E i \in InstIds : FreeDetached("t1", i)

SpecDetached == Init /\ [][NextDetached]_vars

---------------------------------------------------------------------------
(* A caller adding to one detached index, another quantizing its provider *)

\* Provider::quantize_sq8 (provider.rs 161-210): under vectors.read() the
\* count is loaded; with no rows or no dimension nothing happens, else the
\* quantized storage is computed from the live prefix and stored
QuantizeSq8(t) ==
    LET i == held[t]
        dim == params[i].dimension
    IN
    /\ DetachedCall(t, [NoCall EXCEPT !.op = "quantize"])
    /\ quantized' = [quantized EXCEPT ![i] =
                       IF count[i] = 0 \/ dim = 0
                       THEN @
                       ELSE quantize_sq8(vectors[i], count[i], dim)]
    /\ Finish(t, [kind |-> "unit"])
    /\ UNCHANGED <<INDEXES, kind, params, vectors, adjacency, count,
                   start_point_ids, index, gate_readers, gate_writer, next_label,
                   fs, held, calls, hist_vars>>

\* the vectors added to a provider that is quantized: three values of one
\* dimension, so that the middle one falls between two codes
QuantVectors == {<<1, 0>>, <<-1, 0>>, <<0, 0>>}

\* one thread adds while the other quantizes
NextQuantize ==
    \/ \E v \in QuantVectors : AddBegin("t1", v, FALSE)
    \/ AddStep("t1")
    \/ QuantizeSq8("t2")

SpecQuantize == Init /\ [][NextQuantize]_vars

---------------------------------------------------------------------------
(* streaming_build (streaming_build.rs 48-298). An input vector is named   *)
(* by its position in the input file; the pilot is the sequence of the     *)
(* positions inserted, its labels being 0, 1, ...                          *)

\* (n as f64).sqrt() as usize, for n below (IsqrtCap + 1)^2
IsqrtCap == 2000
Isqrt(n) == CHOOSE r \in 0..IsqrtCap : r * r <= n /\ n < (r + 1) * (r + 1)

\* a sample size taken as given, with no regard for the number of vectors
SampleSizeAsGiven(n, sample_size) ==
    IF sample_size = 0 THEN Min(Max(Isqrt(n), 1000), n) ELSE sample_size

\* lines 70-76: sample_n
SampleSize(n, sample_size) ==
    IF sample_size = 0 THEN Min(Max(Isqrt(n), 1000), n) ELSE Min(sample_size, n)

\* input files: the header's num_vectors and dimension and the number of
\* vectors stored after it; one path names no file, one file is cut short
StreamInputs ==
    { [exists |-> FALSE, num_vectors |-> 0, dimension |-> 0, stored |-> 0],
      [exists |-> TRUE, num_vectors |-> 0, dimension |-> 2, stored |-> 0],
      [exists |-> TRUE, num_vectors |-> 3, dimension |-> 0, stored |-> 0],
      [exists |-> TRUE, num_vectors |-> 3, dimension |-> 2, stored |-> 2] }
    \cup { [exists |-> TRUE, num_vectors |-> n, dimension |-> 2, stored |-> n] :
             n \in {1, 3, 1001, 1002001} }

\* the sample_size argument
SampleSizes == {0, 2, 5}

\* the index parameters of a streaming build
StreamParamChoices == {p \in ParamChoices : p.metric = "L2"}

\* no index, no call; one of the two paths names a file of an earlier save
InitStreaming ==
    /\ InitCommon
    /\ params = [i \in InstIds |-> NoParams]
    /\ kind = [i \in InstIds |-> "free"]
    /\ held = [t \in Threads |-> NoInst]
    /\ fs = [p \in Paths |-> IF p = "a.diskann" THEN SampleFile ELSE NoFile]

\* lines 56-89: open the input, read and check its header, derive sample_n,
\* make the empty pilot
StreamingBuildBegin(t, in, out, p, sample_size) ==
    /\ pc[t] = "idle"
    /\ reg_calls < MaxBuilds
    /\ reg_calls' = reg_calls + 1
    /\ call' = [call EXCEPT ![t] =
                  [input |-> in, sample_size |-> sample_size]
                    @@ [NoCall EXCEPT !.op = "streaming_build", !.path = out,
                                      !.params = p]]
    /\ IF ~in.exists
       THEN Finish(t, [kind |-> "err", msg |-> "Failed to open input"])
       ELSE IF in.num_vectors = 0
       THEN Finish(t, [kind |-> "err", msg |-> "Input file has 0 vectors"])
       ELSE IF in.dimension = 0
       THEN Finish(t, [kind |-> "err", msg |-> "Input file has dimension 0"])
       ELSE /\ local' = [local EXCEPT ![t] =
                           [sample_n |-> SampleSize(in.num_vectors, sample_size),
                            position |-> 0, sample_vectors |-> <<>>,
                            pilot |-> <<>>]]
            /\ Goto(t, "sb_read")
            /\ UNCHANGED ret
    /\ UNCHANGED <<INDEXES, inst_vars, fs, held, calls, hist_vars>>

\* lines 91-97: read the next sample_n vectors of the input
StreamingReadSample(t) ==
    /\ pc[t] = "sb_read"
    /\ IF call[t].input.stored < local[t].position + local[t].sample_n
       THEN Finish(t, [kind |-> "err", msg |-> "Failed to read sample vector"])
       ELSE /\ local' = [local EXCEPT
                           ![t].sample_vectors =
                              [j \in 1..local[t].sample_n |-> local[t].position + j - 1],
                           ![t].position = @ + local[t].sample_n]
            /\ Goto(t, "sb_pilot")
            /\ UNCHANGED ret
    /\ UNCHANGED <<INDEXES, inst_vars, fs, held, call, calls, reg_calls, hist_vars>>

\* lines 99-102: pilot.add of the next sample vector; add fails when the
\* engine rejects the configuration
StreamingPilotAdd(t) ==
    /\ pc[t] = "sb_pilot"
    /\ Len(local[t].pilot) < Len(local[t].sample_vectors)
    /\ IF ~BuilderBuild(call[t].params)
       THEN Finish(t, [kind |-> "err", msg |-> "DiskANN config error"])
       ELSE /\ local' = [local EXCEPT ![t].pilot =
                           Append(@, local[t].sample_vectors[Len(@) + 1])]
            /\ UNCHANGED <<pc, ret>>
    /\ UNCHANGED <<INDEXES, inst_vars, fs, held, call, calls, reg_calls, hist_vars>>

\* the output created ahead of the stream phase: a short input leaves it
\* created and cut to nothing
StreamingWriteCreatesFirst(t) ==
    LET in == call[t].input
        p == call[t].params
    IN
    /\ pc[t] = "sb_pilot"
    /\ Len(local[t].pilot) = Len(local[t].sample_vectors)
    /\ IF in.stored < in.num_vectors
       THEN /\ Finish(t, [kind |-> "err", msg |-> "Failed to read streaming vector"])
            /\ fs' = [fs EXCEPT ![call[t].path] = [exists |-> TRUE]]
       ELSE /\ fs' = [fs EXCEPT ![call[t].path] =
                        [exists |-> TRUE, dimension |-> in.dimension,
                         metric |-> p.metric, max_degree |-> p.max_degree,
                         build_complexity |-> p.build_complexity,
                         num_vectors |-> in.num_vectors,
                         entry_points |-> IF local[t].pilot = <<>> THEN <<>>
                                          ELSE <<0>>]]
            /\ Finish(t, [kind |-> "built", num_vectors |-> in.num_vectors,
                          dimension |-> in.dimension,
                          sample_size |-> local[t].sample_n,
                          pilot |-> local[t].pilot])
    /\ UNCHANGED <<INDEXES, inst_vars, held, call, calls, reg_calls, hist_vars>>

\* lines 104-297: the remaining vectors are read and linked, the output
\* file is written (its header and entry points are kept here) and the
\* result record returned
StreamingWrite(t) ==
    LET in == call[t].input
        p == call[t].params
    IN
    /\ pc[t] = "sb_pilot"
    /\ Len(local[t].pilot) = Len(local[t].sample_vectors)
    /\ IF in.stored < in.num_vectors
       THEN /\ Finish(t, [kind |-> "err", msg |-> "Failed to read streaming vector"])
            /\ UNCHANGED fs
       ELSE /\ fs' = [fs EXCEPT ![call[t].path] =
                        [exists |-> TRUE, dimension |-> in.dimension,
                         metric |-> p.metric, max_degree |-> p.max_degree,
                         build_complexity |-> p.build_complexity,
                         num_vectors |-> in.num_vectors,
                         entry_points |-> IF local[t].pilot = <<>> THEN <<>>
                                          ELSE <<0>>]]
            /\ Finish(t, [kind |-> "built", num_vectors |-> in.num_vectors,
                          dimension |-> in.dimension,
                          sample_size |-> local[t].sample_n,
                          pilot |-> local[t].pilot])
    /\ UNCHANGED <<INDEXES, inst_vars, held, call, calls, reg_calls, hist_vars>>

NextStreaming ==
    \/ \E in \in StreamInputs, out \in Paths, p \in StreamParamChoices,
          s \in SampleSizes :
          StreamingBuildBegin("t1", in, out, p, s)
    \/ StreamingReadSample("t1")
    \/ StreamingPilotAdd("t1")
    \/ StreamingWrite("t1")

SpecStreaming == InitStreaming /\ [][NextStreaming]_vars

---------------------------------------------------------------------------
(* streaming_build with its vectors and graphs: the pilot index, the      *)
(* secondary index of streamed vectors, the rows of both parts and the    *)
(* back-edges (streaming_build.rs 83-212), for inputs of a few vectors    *)

MaxStreamLen == 3

\* the vectors of an input file
StreamVectors == {<<0, 0>>, <<1, 0>>, <<3, 0>>}

\* the input files: 1..MaxStreamLen vectors of dimension 2
GraphInputs ==
    UNION { [1..n -> StreamVectors] : n \in 1..MaxStreamLen }

\* the index parameters: R = 1 or 2, and one configuration the engine rejects
GraphParamChoices ==
    DegreeParamChoices
      \cup {p \in ParamChoices : p.metric = "L2" /\ p.engine_config = "rejected"}

\* the sample_size argument: automatic, one sample vector, two
GraphSampleSizes == {0, 1, 2}

\* InMemoryIndex::search (index_manager.rs 266-332) as one call
SearchOutcome(i, q, k, sc) ==
    LET n == ProviderLen(i)
        kk == Min(k, n)
        found == GreedySearch(i, q, kk, LSearch(i, kk, sc))
    IN  IF QueryDimensionMismatch(i, q) THEN [ok |-> FALSE, list |-> <<>>]
        ELSE IF SearchShortcut(i, q, n).hit
        THEN [ok |-> TRUE, list |-> SearchShortcut(i, q, n).list]
        ELSE IF ~index[i] \/ ~found.ok THEN [ok |-> FALSE, list |-> <<>>]
        ELSE [ok |-> TRUE, list |-> Take(found.list, kk)]

\* InMemoryIndex::get_all_adjacency (index_manager.rs 335-344)
get_all_adjacency(i, cnt, max_deg) ==
    [id \in 1..cnt |-> Take(get_neighbors(i, id - 1), max_deg)]

\* combined.sort_by on the distance (line 156): a stable sort
RECURSIVE SortByDistance(_)
SortByDistance(s) ==
    IF s = <<>> THEN <<>>
    ELSE LET rest == SortByDistance(Tail(s))
             p == Cardinality({j \in 1..Len(rest) : rest[j][2] < Head(s)[2]})
         IN  SubSeq(rest, 1, p) \o <<Head(s)>> \o SubSeq(rest, p + 1, Len(rest))

\* combined.dedup_by_key(|x| x.0) (line 157): of consecutive entries with
\* the same id the first stays
RECURSIVE DedupByKey(_)
DedupByKey(s) ==
    IF Len(s) <= 1 THEN s
    ELSE IF s[1][1] = s[2][1]
    THEN DedupByKey(<<s[1]>> \o SubSeq(s, 3, Len(s)))
    ELSE <<s[1]>> \o DedupByKey(Tail(s))

\* lines 147-160: the row of a streamed vector from the two result lists
StreamNeighbors(pilot_results, stream_results, sample_n, deg) ==
    LET combined == pilot_results
                      \o [j \in 1..Len(stream_results) |->
                            <<sample_n + stream_results[j][1], stream_results[j][2]>>]
        top == Take(DedupByKey(SortByDistance(combined)), deg)
    IN  [j \in 1..Len(top) |-> top[j][1]]

\* lines 176-187: (i, stream_global_id, target_id) of every streamed vector
\* whose row is not empty
BackEdges(stream_adj, sample_n) ==
    LET all == [x \in 1..Len(stream_adj) |-> [i |-> x - 1, adj |-> stream_adj[x]]]
        sel == SelectSeq(all, LAMBDA b : b.adj # <<>>)
    IN  [x \in 1..Len(sel) |->
           [i |-> sel[x].i, g |-> sample_n + sel[x].i,
            target |-> sel[x].adj[(sel[x].i % Len(sel[x].adj)) + 1]]]

\* a back-edge always appended, never written over another neighbor
InjectAppends(row, g, deg) == Append(row, g)

\* lines 193-198 and 205-210: push while the row has room, else write slot
\* stream_global_id % deg
InjectInto(row, g, deg) ==
    IF Len(row) < deg THEN Append(row, g)
    ELSE [row EXCEPT ![(g % deg) + 1] = g]

\* lines 189-212 for one back-edge b on the rows adj = (sample, stream)
Inject(adj, sample_n, deg, b) ==
    IF b.target < sample_n
    THEN [adj EXCEPT !.sample[b.target + 1] = InjectInto(@, b.g, deg)]
    ELSE LET stream_idx == b.target - sample_n IN
         IF /\ stream_idx < Len(adj.stream)
            /\ stream_idx # b.i
            /\ b.g \notin Range(adj.stream[stream_idx + 1])
         THEN [adj EXCEPT !.stream[stream_idx + 1] = InjectInto(@, b.g, deg)]
         ELSE adj

\* the caller's one call; lines 56-89: the input is read, sample_n derived,
\* the empty pilot made
StreamGraphBegin(t, in, out, p, sample_size) ==
    /\ pc[t] = "idle"
    /\ ret[t] = NoRet
    /\ \E j \in InstIds : kind[j] = "free"
    /\ reg_calls' = reg_calls + 1
    /\ call' = [call EXCEPT ![t] =
                  [input |-> in, sample_size |-> sample_size,
                   sample_n |-> SampleSize(Len(in), sample_size),
                   pilot |-> FreeSlot, stream |-> NoInst, phase |-> "pilot",
                   i |-> 0, adj |-> [sample |-> <<>>, stream |-> <<>>],
                   back_edges |-> <<>>]
                    @@ [NoCall EXCEPT !.op = "streaming_build", !.path = out,
                                      !.params = p, !.target = FreeSlot,
                                      !.queue = Take(in, SampleSize(Len(in), sample_size))]]
    /\ InstancesBecome(FreeSlot, NewInMemoryIndex(p), {})
    /\ Goto(t, "sg_pilot")
    /\ UNCHANGED <<INDEXES, fs, held, local, ret, calls, destroyed, snap>>

\* lines 102-125: the next sample vector enters pilot.add; after the last
\* one the pilot's rows are copied and the secondary index is made
StreamGraphPilot(t) ==
    LET j == call[t].pilot
        deg == call[t].params.max_degree
    IN
    /\ pc[t] = "sg_pilot"
    /\ IF call[t].queue = <<>>
       THEN /\ call' = [call EXCEPT
                          ![t].adj.sample = get_all_adjacency(j, call[t].sample_n, deg),
                          ![t].stream = FreeSlot,
                          ![t].target = FreeSlot,
                          ![t].phase = "stream"]
            /\ InstancesBecome(FreeSlot, NewInMemoryIndex(call[t].params), {})
            /\ Goto(t, "sg_stream")
            /\ UNCHANGED <<local, ret>>
       ELSE /\ call' = [call EXCEPT ![t].vector = Head(call[t].queue),
                                    ![t].queue = Tail(call[t].queue)]
            /\ next_label' = [next_label EXCEPT ![j] = FetchAddNext(next_label[j])]
            /\ fetched' = [fetched EXCEPT ![j] = Append(@, next_label[j])]
            /\ local' = [local EXCEPT ![t] = [NoLocal EXCEPT !.label = next_label[j]]]
            /\ Goto(t, "add_fast")
            /\ UNCHANGED <<kind, params, provider_vars, index, returned, ret>>
    /\ UNCHANGED <<INDEXES, gate_readers, gate_writer, fs, held, calls, reg_calls,
                   destroyed, snap>>

\* lines 129-165: the next streamed vector is searched for in the pilot and
\* (after the first) in the secondary index, its row is pushed and it
\* enters stream_index.add; after the last one the back-edges are collected
StreamGraphStream(t) ==
    LET j == call[t].stream
        sample_n == call[t].sample_n
        deg == call[t].params.max_degree
        vec == call[t].input[sample_n + call[t].i + 1]
        pilot_results == SearchOutcome(call[t].pilot, vec, deg,
                                       call[t].params.build_complexity)
        stream_found == SearchOutcome(j, vec, deg, call[t].params.build_complexity)
        stream_results == IF call[t].i > 0 /\ stream_found.ok
                          THEN stream_found.list ELSE <<>>
    IN
    /\ pc[t] = "sg_stream"
    /\ IF call[t].i = Len(call[t].input) - sample_n
       THEN /\ call' = [call EXCEPT ![t].back_edges =
                                      BackEdges(call[t].adj.stream, sample_n)]
            /\ Goto(t, "sg_back")
            /\ UNCHANGED <<next_label, fetched, local, ret>>
       ELSE IF ~pilot_results.ok
       THEN /\ pc' = [pc EXCEPT ![t] = "sg_fail"]
            /\ ret' = [ret EXCEPT ![t] = [kind |-> "err", msg |-> "search"]]
            /\ UNCHANGED <<call, next_label, fetched, local>>
       ELSE /\ call' = [call EXCEPT
                          ![t].adj.stream =
                             Append(@, StreamNeighbors(pilot_results.list, stream_results,
                                                       sample_n, deg)),
                          ![t].i = @ + 1,
                          ![t].vector = vec]
            /\ next_label' = [next_label EXCEPT ![j] = FetchAddNext(next_label[j])]
            /\ fetched' = [fetched EXCEPT ![j] = Append(@, next_label[j])]
            /\ local' = [local EXCEPT ![t] = [NoLocal EXCEPT !.label = next_label[j]]]
            /\ Goto(t, "add_fast")
            /\ UNCHANGED ret
    /\ UNCHANGED <<INDEXES, kind, params, provider_vars, index, gate_readers,
                   gate_writer, fs, held, calls, reg_calls, returned, destroyed,
                   snap>>

\* lines 189-212: the next back-edge is injected
StreamGraphInject(t) ==
    /\ pc[t] = "sg_back"
    /\ call[t].back_edges # <<>>
    /\ call' = [call EXCEPT
                  ![t].adj = Inject(@, call[t].sample_n, call[t].params.max_degree,
                                    Head(call[t].back_edges)),
                  ![t].back_edges = Tail(@)]
    /\ UNCHANGED <<INDEXES, inst_vars, fs, held, pc, local, ret, calls, reg_calls,
                   hist_vars>>

\* lines 215-297: the output file is written with the pilot's entry points,
\* the input's vectors and the rows of both parts (each cut to deg ids);
\* the two indexes are dropped with the function's locals
StreamGraphWrite(t) ==
    LET p == call[t].params
        rows == call[t].adj.sample \o call[t].adj.stream
    IN
    /\ pc[t] = "sg_back"
    /\ call[t].back_edges = <<>>
    /\ fs' = [fs EXCEPT ![call[t].path] =
                [exists |-> TRUE, dimension |-> p.dimension, metric |-> p.metric,
                 max_degree |-> p.max_degree,
                 build_complexity |-> p.build_complexity,
                 num_vectors |-> Len(call[t].input),
                 entry_points |-> start_point_ids[call[t].pilot],
                 vectors |-> call[t].input,
                 adjacency |-> [x \in 1..Len(rows) |-> Take(rows[x], p.max_degree)]]]
    /\ InstancesBecome(NoInst, FreeInstance, {call[t].pilot, call[t].stream})
    /\ Finish(t, [kind |-> "built", num_vectors |-> Len(call[t].input),
                  dimension |-> p.dimension, sample_size |-> call[t].sample_n])
    /\ UNCHANGED <<INDEXES, held, call, calls, reg_calls, destroyed, snap>>

\* the `?` of line 103 or 135: the error is returned, the indexes dropped
StreamGraphFail(t) ==
    /\ pc[t] = "sg_fail"
    /\ InstancesBecome(NoInst, FreeInstance, {call[t].pilot, call[t].stream})
    /\ Goto(t, "idle")
    /\ UNCHANGED <<INDEXES, fs, held, call, local, ret, calls, reg_calls,
                   destroyed, snap>>

NextStreamGraph ==
    \/ \E in \in GraphInputs, p \in GraphParamChoices, s \in GraphSampleSizes :
          StreamGraphBegin("t1", in, "a.diskann", p, s)
    \/ AddStep("t1")
    \/ StreamGraphPilot("t1")
    \/ StreamGraphStream("t1")
    \/ StreamGraphInject("t1")
    \/ StreamGraphWrite("t1")
    \/ StreamGraphFail("t1")

SpecStreamGraph == InitStreaming /\ [][NextStreamGraph]_vars

---------------------------------------------------------------------------
(* Claims *)

TheIndex == "i1"

InAdd(t) == call[t].op = "add" /\ pc[t] # "idle"

AddDone(t) == call[t].op = "add" /\ pc[t] = "idle"

SearchDone(t) == call[t].op = "search" /\ pc[t] = "idle"

\* the labels of the ids that some store of instance i mentions
StoredIds(i) ==
    (DOMAIN adjacency[i]) \cup Range(start_point_ids[i])
      \cup {id \in 0..(Len(vectors[i]) + 1) :
              Len(vectors[i]) > 0 /\ (id + 1) * params[i].dimension = Len(vectors[i])}

\* C1: under every interleaving of concurrent add calls, the labels handed
\* out are exactly 0, 1, 2, ... in this order (so no two calls get the same
\* label and there is no gap), the labels of the calls in flight and of the
\* calls that returned are pairwise different, and a call has its label before
\* it touches the vector store, the adjacency store or the entry points: the
\* stores mention fetched labels only, and a call that has not yet reached
\* its first write has left no trace at its label.
C1_LabelAssignment ==
    LET i == TheIndex IN
    /\ fetched[i] = [j \in 1..Len(fetched[i]) |-> j - 1]
    /\ next_label[i] = Len(fetched[i])
    /\ \A t, u \in Threads :
          (t # u /\ InAdd(t) /\ InAdd(u)) => local[t].label # local[u].label
    /\ \A a, b \in 1..Len(returned[i]) : a # b => returned[i][a] # returned[i][b]
    /\ \A t \in Threads :
          InAdd(t) => local[t].label \notin Range(returned[i])
    /\ \A id \in StoredIds(i) : id < next_label[i]
    /\ \A t \in Threads :
          (InAdd(t) /\ pc[t] \in {"add_fast", "add_slow", "isp_vec", "set_vec"})
             => /\ local[t].label \notin DOMAIN adjacency[i]
                /\ local[t].label \notin Range(start_point_ids[i])

\* two add calls are in flight at once, one already writing, and a third
\* label has been handed out before
C1_Witness ==
    /\ Len(fetched[TheIndex]) = 3
    /\ \E t, u \in Threads :
          /\ t # u
          /\ InAdd(t) /\ pc[t] = "backedge"
          /\ InAdd(u) /\ pc[u] \in {"set_adj", "set_count", "link"}

\* C2: whenever all issued add calls have returned and k of them returned a
\* label, the next label to be assigned is k and len() is k.
C2_AfterKInsertions ==
    LET i == TheIndex
        k == Len(returned[i])
    IN  (\A t \in Threads : pc[t] = "idle")
           => next_label[i] = k /\ ProviderLen(i) = k

\* C2 (amended): whenever all issued add calls have returned, the next label
\* to be assigned is the number of add calls that passed the dimension check,
\* this number is at least the number k of calls that returned a label, and
\* k <= len() <= next label; when every call that passed the dimension check
\* returned a label, the next label and len() are both k.
C2_LabelsFetchedAndReturned ==
    LET i == TheIndex
        k == Len(returned[i])
    IN  (\A t \in Threads : pc[t] = "idle")
           => /\ next_label[i] = Len(fetched[i])
              /\ k <= ProviderLen(i)
              /\ ProviderLen(i) <= next_label[i]
              /\ (Len(fetched[i]) = k => next_label[i] = k /\ ProviderLen(i) = k)

\* two adds returned labels, a third call was refused or was a search, and
\* no call is in progress
C2_Witness ==
    /\ \A t \in Threads : pc[t] = "idle"
    /\ calls = 3
    /\ Len(returned[TheIndex]) = 2
    /\ Len(fetched[TheIndex]) = 2
    /\ ProviderLen(TheIndex) = 2

\* C3: when add returns an error, the vector store, the adjacency store, the
\* count and the entry points are as they were when the call began.
C3_FailedInsertNotObservable ==
    LET i == TheIndex IN
    \A t \in Threads :
        (AddDone(t) /\ ret[t].kind = "err")
           => /\ vectors[i] = snap[t].vectors
              /\ adjacency[i] = snap[t].adjacency
              /\ count[i] = snap[t].count
              /\ start_point_ids[i] = snap[t].start_point_ids

\* C4: an add whose vector length differs from the index dimension returns
\* an error and leaves next_label, len(), the vector store, the adjacency
\* store, the entry points and the engine Option as they were.
C4_WrongDimensionRefused ==
    LET i == TheIndex IN
    \A t \in Threads :
        (AddDone(t) /\ Len(call[t].vector) # params[i].dimension)
           => /\ ret[t].kind = "err"
              /\ Observe(i) = snap[t]

\* an add of the wrong dimension was refused on an index that already holds
\* a vector and has its engine
C4_Witness ==
    /\ AddDone("t1")
    /\ Len(call["t1"].vector) # params[TheIndex].dimension
    /\ ret["t1"].kind = "err"
    /\ count[TheIndex] >= 1
    /\ index[TheIndex]

\* C5: a search that returns results returns at most min(k, live_count) of
\* them; with k = 0 the list is empty. (Stated for an index whose engine
\* configuration is accepted: there every stored vector was stored by an add
\* that returned its label, so len() is the live count.)
C5_AtMostMinKCount ==
    LET i == TheIndex IN
    \A t \in Threads :
        (SearchDone(t) /\ ret[t].kind = "results" /\ BuilderBuild(params[i]))
           => Len(ret[t].list) <= Min(call[t].k, ProviderLen(i))

\* C6: for an inner-product index every returned distance is the inner
\* product of the query and the returned vector. (Stated, as C5, for an
\* index whose engine configuration is accepted, and for k >= 1.)
C6_TrueInnerProduct ==
    LET i == TheIndex IN
    \A t \in Threads :
        (SearchDone(t) /\ ret[t].kind = "results" /\ params[i].metric = "InnerProduct"
           /\ BuilderBuild(params[i]) /\ call[t].k >= 1)
           => \A j \in 1..Len(ret[t].list) :
                 ret[t].list[j][2]
                   = inner_product(call[t].vector, get_vector(i, ret[t].list[j][1]))

\* C7: a search with a query of the index dimension on an index that holds
\* no vectors returns Ok with an empty list, whatever k is.
C7_EmptyIndexSearch ==
    LET i == TheIndex IN
    \A t \in Threads :
        (SearchDone(t) /\ Len(call[t].vector) = params[i].dimension
           /\ snap[t].count = 0)
           => ret[t] = [kind |-> "results", list |-> <<>>]

\* a search with k = 3 on the empty index has returned
C7_Witness ==
    /\ SearchDone("t1")
    /\ call["t1"].k = 3
    /\ snap["t1"].count = 0
    /\ ret["t1"].kind = "results"

\* C8 as stated: a search on an in-memory index on which no insert has been
\* made yet is reported as an error.
C8_SearchBeforeInsertReported ==
    \A t \in Threads :
        (SearchDone(t) /\ snap[t].next_label = 0) => ret[t].kind = "err"

\* C8, amended: before any insert a search fails only for a query of the
\* wrong dimension (and otherwise returns Ok), and "Index not initialized"
\* is reported only by a search that found len() >= 2 and the engine absent.
C8_SearchBeforeInsertOk ==
    LET i == TheIndex IN
    \A t \in Threads :
        SearchDone(t)
           => /\ snap[t].next_label = 0
                 => (ret[t].kind = "err" <=> Len(call[t].vector) # params[i].dimension)
              /\ (ret[t].kind = "err" /\ ret[t].msg = "Index not initialized")
                 => (snap[t].count >= 2 /\ ~snap[t].index)

\* a search issued before any insert has returned Ok
C8_Witness ==
    /\ SearchDone("t1")
    /\ snap["t1"].next_label = 0
    /\ next_label[TheIndex] = 0
    /\ ret["t1"].kind = "results"


RegistryOps == {"create", "load", "get", "destroy"}

\* thread t enters registry function op on name nm in this step
Enters(t, op, nm) ==
    /\ pc[t] = "idle"
    /\ reg_calls' = reg_calls + 1
    /\ call'[t].op = op
    /\ call'[t].name = nm

\* the fields of instance slot i after the step
ContentAfter(i) ==
    [kind |-> kind'[i], params |-> params'[i], vectors |-> vectors'[i],
     adjacency |-> adjacency'[i], count |-> count'[i],
     start_point_ids |-> start_point_ids'[i], index |-> index'[i],
     next_label |-> next_label'[i]]

\* thread t leaves the insert step of create_index or load_index
Inserts(t, where) == pc[t] = where /\ pc'[t] = "idle"

\* C9: for calls made one after the other, create_index and load_index on a
\* name that is bound fail with "already exists" and change neither the
\* registry nor any instance; destroy_index on a name that is not bound fails
\* with "not found" and changes nothing; once a name has been destroyed, a
\* create_index of that name passes its existence check and then succeeds,
\* binding the name to an instance that was not in use before, that nobody
\* holds, and that is empty (no vector, no adjacency, count 0, next label 0,
\* engine absent) with the parameters of the call.
C9_NameDiscipline ==
    [][\A t \in Threads, nm \in Names :
         /\ ((Enters(t, "create", nm) \/ Enters(t, "load", nm)) /\ INDEXES[nm] # NoInst
               => /\ pc'[t] = "idle" /\ ret'[t] = AlreadyExists
                  /\ UNCHANGED <<INDEXES, inst_vars, fs>>)
         /\ (Enters(t, "destroy", nm) /\ INDEXES[nm] = NoInst
               => /\ pc'[t] = "idle" /\ ret'[t] = NotFound
                  /\ UNCHANGED <<INDEXES, inst_vars, fs>>)
         /\ (Enters(t, "destroy", nm) /\ INDEXES[nm] # NoInst
               => pc'[t] = "idle" /\ ret'[t] = Done /\ INDEXES'[nm] = NoInst)
         /\ (Enters(t, "create", nm) /\ nm \in destroyed /\ INDEXES[nm] = NoInst
               => pc'[t] = "create_insert")
         /\ (Inserts(t, "create_insert") /\ call[t].name = nm
               => /\ ret'[t] = Done
                  /\ INDEXES'[nm] # NoInst
                  /\ kind[INDEXES'[nm]] = "free"
                  /\ \A u \in Threads : held'[u] # INDEXES'[nm]
                  /\ ContentAfter(INDEXES'[nm]) = NewInMemoryIndex(call[t].params)
                  /\ NewInMemoryIndex(call[t].params).count = 0)
      ]_vars

\* a create_index of a destroyed name has returned Ok and the name is bound
C9_Witness ==
    /\ "x" \in destroyed
    /\ pc["t1"] = "idle"
    /\ call["t1"].op = "create"
    /\ ret["t1"] = Done
    /\ INDEXES["x"] # NoInst
    /\ count[INDEXES["x"]] = 0

\* C10: destroy_index only unbinds the name. While a caller keeps the handle
\* it got from get_index, the instance behind the handle stays alive with its
\* kind and parameters; its contents change only through a step of an add
\* call made through a handle to it (never through create, load, get or
\* destroy); a step that binds a name binds an instance different from every
\* held one; and an add made through the handle takes effect on the held
\* instance: the returned label is below its len() and the vector stored
\* under the label is the vector of the call.
C10_DestroyOnlyUnbinds ==
    /\ [](\A t \in Threads :
            (held[t] # NoInst /\ AddDone(t) /\ ret[t].kind = "label")
              => /\ ret[t].label < ProviderLen(held[t])
                 /\ vector_present(held[t], ret[t].label)
                 /\ get_vector(held[t], ret[t].label) = call[t].vector)
    /\ [][\A t \in Threads :
            (held[t] # NoInst /\ held'[t] = held[t]) =>
               LET i == held[t] IN
               /\ kind'[i] = kind[i] /\ kind[i] # "free"
               /\ params'[i] = params[i]
               /\ (ContentAfter(i) # Content(i)
                     => \E u \in Threads : /\ held[u] = i
                                           /\ call'[u].op = "add"
                                           /\ (pc[u] # "idle" \/ pc'[u] # "idle"))
               /\ \A nm \in Names :
                    (INDEXES'[nm] # INDEXES[nm] /\ INDEXES'[nm] # NoInst)
                       => INDEXES'[nm] # i
      ]_vars

\* the caller got the handle, the name was destroyed and created again, and
\* an add through the old handle has returned a label: the held instance has
\* the vector, the newly bound one is empty
C10_Witness ==
    /\ "x" \in destroyed
    /\ held["t1"] # NoInst
    /\ INDEXES["x"] # NoInst
    /\ INDEXES["x"] # held["t1"]
    /\ AddDone("t1")
    /\ ret["t1"].kind = "label"
    /\ count[held["t1"]] = ret["t1"].label + 1
    /\ count[INDEXES["x"]] = 0

\* thread t begins an add call through its handle in this step
EntersAdd(t) ==
    /\ pc[t] = "idle"
    /\ calls' = calls + 1
    /\ call'[t].op = "add"

\* C11: a disk-backed index is immutable. An add through a handle to a
\* disk-backed index returns an error, a save_index of a name bound to a
\* disk-backed index returns an error, and neither step changes the
\* registry, the index's count, its kind (read-only) or anything else of
\* any instance; the save does not touch the file system either.
C11_DiskIndexImmutable ==
    [][\A t \in Threads :
         /\ (EntersAdd(t) /\ held[t] # NoInst /\ kind[held[t]] = "Disk"
               => /\ pc'[t] = "idle" /\ ret'[t].kind = "err"
                  /\ ContentAfter(held[t]) = Content(held[t])
                  /\ UNCHANGED <<INDEXES, inst_vars>>)
         /\ \A nm \in Names :
              (Enters(t, "save", nm) /\ INDEXES[nm] # NoInst /\ kind[INDEXES[nm]] = "Disk"
                 => /\ pc'[t] = "idle" /\ ret'[t].kind = "err"
                    /\ ContentAfter(INDEXES[nm]) = Content(INDEXES[nm])
                    /\ UNCHANGED <<INDEXES, inst_vars, fs>>)
      ]_vars

\* a save of a name bound to a loaded index has been refused; the index
\* still holds the file's one vector and is still read-only
C11_Witness ==
    /\ pc["t1"] = "idle"
    /\ call["t1"].op = "save"
    /\ ret["t1"].kind = "err"
    /\ INDEXES["x"] # NoInst
    /\ kind[INDEXES["x"]] = "Disk"
    /\ count[INDEXES["x"]] = 1


\* thread t enters a serialization or compaction call op in this step
EntersDetached(t, op) ==
    /\ pc[t] = "idle"
    /\ reg_calls' = reg_calls + 1
    /\ call'[t].op = op

\* thread t hands from_bytes, in this step, the bytes its serialize_to_bytes
\* call returned for index ret[t].of, which it still holds
RoundTrips(t) ==
    /\ EntersDetached(t, "from_bytes")
    /\ ret[t].kind = "bytes"
    /\ kind[ret[t].of] = "InMemory"
    /\ call'[t].data = ret[t].data

\* content b is content a in dimension, metric, R, L_build, count, entry
\* points, every vector and every adjacency row
SameModuloAlpha(a, b) ==
    /\ b.params.dimension = a.params.dimension
    /\ b.params.metric = a.params.metric
    /\ b.params.max_degree = a.params.max_degree
    /\ b.params.build_complexity = a.params.build_complexity
    /\ b.count = a.count
    /\ b.start_point_ids = a.start_point_ids
    /\ \A id \in 0..(a.count - 1) :
         /\ LET dim == a.params.dimension IN
            SubSeq(b.vectors, id * dim + 1, id * dim + dim)
              = SubSeq(a.vectors, id * dim + 1, id * dim + dim)
         /\ id \in DOMAIN b.adjacency
         /\ b.adjacency[id] = IF id \in DOMAIN a.adjacency THEN a.adjacency[id]
                              ELSE <<>>

\* C12 as stated: from_bytes(serialize_to_bytes(I), alpha) is an index with
\* the dimension, metric, R, L_build, count, entry points, vectors and
\* adjacency rows of I, for every index I that adds produce and every alpha.
C12_RoundTripIdentity ==
    [][\A t \in Threads :
         RoundTrips(t)
           => /\ pc'[t] = "idle"
              /\ ret'[t].kind = "index"
              /\ SameModuloAlpha(Content(ret[t].of), ContentAfter(ret'[t].instance))
      ]_vars

\* C12 amended: when the engine accepts the configuration made of the
\* header's R and L_build and the caller's alpha, from_bytes of the
\* serialized bytes of I returns an index with the dimension, metric, R,
\* L_build, count, entry points, vectors and adjacency rows of I; when the
\* engine rejects it, from_bytes returns an error and no index is made.
C12_RoundTripWhenAccepted ==
    [][\A t \in Threads :
         RoundTrips(t)
           => /\ pc'[t] = "idle"
              /\ IF BuilderBuild([params[ret[t].of] EXCEPT
                                    !.alpha_num = call'[t].alpha.alpha_num,
                                    !.alpha_den = call'[t].alpha.alpha_den,
                                    !.engine_config = call'[t].alpha.engine_config])
                 THEN /\ ret'[t].kind = "index"
                      /\ kind[ret'[t].instance] = "free"
                      /\ SameModuloAlpha(Content(ret[t].of),
                                         ContentAfter(ret'[t].instance))
                      /\ ContentAfter(ret[t].of) = Content(ret[t].of)
                 ELSE /\ ret'[t].kind = "err"
                      /\ UNCHANGED inst_vars
      ]_vars

\* a three-vector index has come back from its own bytes, one of its
\* adjacency rows shorter than R
C12_Witness ==
    /\ pc["t1"] = "idle"
    /\ call["t1"].op = "from_bytes"
    /\ ret["t1"].kind = "index"
    /\ held["t1"] # NoInst
    /\ call["t1"].data = write_index(held["t1"])
    /\ count[held["t1"]] = 3
    /\ \E id \in 0..2 : Len(get_neighbors(held["t1"], id)) = 1
    /\ SameModuloAlpha(Content(held["t1"]), Content(ret["t1"].instance))


\* byte string d has another magic, another version, or fewer bytes than
\* its header implies
Malformed(d) ==
    \/ ByteLen(d) < HEADER_SIZE
    \/ WordAt(d, 0) # MAGIC
    \/ WordAt(d, 4) # VERSION
    \/ ByteLen(d) < total_file_size(Header(d))

\* C13: from_bytes on a byte string with a magic other than "DANN", a
\* version other than 2, or a length below the size its header implies
\* returns to its caller with an error and constructs no index.
C13_MalformedRefused ==
    [][\A t \in Threads :
         EntersDetached(t, "from_bytes") /\ Malformed(call'[t].data)
           => /\ pc'[t] = "idle"
              /\ ret'[t].kind = "err"
              /\ UNCHANGED inst_vars
      ]_vars


\* thread t's compact call returns its (new index, label map) pair in this
\* step
CompactReturns(t) ==
    /\ call[t].op = "compact"
    /\ pc[t] = "compact_add"
    /\ pc'[t] = "idle"
    /\ ret'[t].kind = "compacted"

\* the old labels compact is to keep: those of 0..n-1 outside deleted
KeptLabels(i, deleted) == {l \in 0..(ProviderLen(i) - 1) : l \notin deleted}

\* C14: when compact returns for a source holding labels 0..n-1 and a
\* deleted set T, its label map has one entry per old label outside T, in
\* increasing old-label order, the new label of an old label is the number
\* of kept old labels below it, and the new index holds under each new
\* label the vector the source holds under the old one.
C14_CompactLabelMap ==
    [][\A t \in Threads :
         CompactReturns(t)
           /\ (\A l \in 0..(ProviderLen(held[t]) - 1) : vector_present(held[t], l))
           => LET src == held[t]
                  new == ret'[t].instance
                  map == ret'[t].label_map
                  kept == KeptLabels(src, call[t].deleted)
              IN
              /\ Len(map) = Cardinality(kept)
              /\ \A l \in kept : Cardinality({k \in 1..Len(map) : map[k][1] = l}) = 1
              /\ \A k \in 1..Len(map) :
                   /\ map[k][1] \in kept
                   /\ k < Len(map) => map[k][1] < map[k + 1][1]
                   /\ map[k][2] = Cardinality({l \in kept : l < map[k][1]})
                   /\ vector_present(new, map[k][2])
                   /\ get_vector(new, map[k][2]) = get_vector(src, map[k][1])
              /\ ProviderLen(new) = Len(map)
      ]_vars

\* label 1 of three was deleted: old labels 0 and 2 are now 0 and 1
C14_Witness ==
    /\ pc["t1"] = "idle"
    /\ call["t1"].op = "compact"
    /\ ret["t1"].kind = "compacted"
    /\ call["t1"].deleted = {1}
    /\ ret["t1"].label_map = << <<0, 0>>, <<2, 1>> >>
    /\ held["t1"] # NoInst
    /\ count[held["t1"]] = 3
    /\ kind[ret["t1"].instance] = "InMemory"
    /\ get_vector(ret["t1"].instance, 1) = get_vector(held["t1"], 2)
    /\ get_vector(ret["t1"].instance, 1) # get_vector(held["t1"], 1)

\* C15: when compact returns for a deleted set T, every label present in
\* the new index is the image, in the label map, of exactly one old label,
\* and that old label is not in T.
C15_NoDeletedLabelSurvives ==
    [][\A t \in Threads :
         CompactReturns(t)
           => LET new == ret'[t].instance
                  map == ret'[t].label_map
              IN
              \A nl \in 0..(count'[new] - 1) \cup DOMAIN adjacency'[new] :
                 /\ Cardinality({k \in 1..Len(map) : map[k][2] = nl}) = 1
                 /\ \A k \in 1..Len(map) :
                      map[k][2] = nl => /\ map[k][1] \notin call[t].deleted
                                        /\ map[k][1] \in 0..(ProviderLen(held[t]) - 1)
      ]_vars

\* labels 0 and 2 of three were deleted: the new index holds old label 1 only
C15_Witness ==
    /\ pc["t1"] = "idle"
    /\ call["t1"].op = "compact"
    /\ ret["t1"].kind = "compacted"
    /\ call["t1"].deleted = {0, 2}
    /\ held["t1"] # NoInst
    /\ count[held["t1"]] = 3
    /\ kind[ret["t1"].instance] = "InMemory"
    /\ count[ret["t1"].instance] = 1
    /\ ret["t1"].label_map = << <<1, 0>> >>

\* thread t takes a step of a compact call
CompactStep(t) ==
    \/ EntersDetached(t, "compact")
    \/ call[t].op = "compact" /\ pc[t] # "idle"

\* C16: no step of compact, on its way to success or to failure, changes
\* the source's vectors, adjacency lists, entry points, count or next-label
\* counter, and the index it returns has the source's dimension, metric,
\* R, L_build and alpha and accepts adds.
C16_CompactNotInPlace ==
    [][\A t \in Threads :
         /\ CompactStep(t) => ContentAfter(held[t]) = Content(held[t])
         /\ CompactReturns(t)
              => /\ params'[ret'[t].instance] = params[held[t]]
                 /\ kind'[ret'[t].instance] = "InMemory"
                 /\ ret'[t].instance # held[t]
      ]_vars

\* a compaction of a two-vector index has returned and the source still
\* holds its two vectors, its entry point and its counter
C16_Witness ==
    /\ pc["t1"] = "idle"
    /\ call["t1"].op = "compact"
    /\ ret["t1"].kind = "compacted"
    /\ call["t1"].deleted = {0}
    /\ held["t1"] # NoInst
    /\ count[held["t1"]] = 2
    /\ next_label[held["t1"]] = 2
    /\ start_point_ids[held["t1"]] = <<0>>
    /\ kind[ret["t1"].instance] = "InMemory"
    /\ params[ret["t1"].instance] = params[held["t1"]]
    /\ count[ret["t1"].instance] = 1


\* C17: between calls, whatever creates, adds, serializations,
\* deserializations and compactions came before, the entry points of every
\* in-memory index are ids below len(), and there is at least one of them
\* once the index holds a node.
C17_EntryPointInvariant ==
    (\A t \in Threads : pc[t] = "idle")
      => \A i \in InstIds :
           kind[i] = "InMemory"
             => /\ Range(start_point_ids[i]) \subseteq 0..(ProviderLen(i) - 1)
                /\ ProviderLen(i) >= 1 => start_point_ids[i] # <<>>


\* C18: once the insertions begun have completed, every node of an
\* in-memory index has at most R neighbours; the back-edge step of an
\* insertion prunes a neighbour's list again when the append takes it past R.
C18_DegreeBound ==
    (\A t \in Threads : pc[t] = "idle")
      => \A i \in InstIds :
           kind[i] = "InMemory"
             => \A id \in DOMAIN adjacency[i] :
                  Len(adjacency[i][id]) <= params[i].max_degree

\* R is 1 and three nodes are linked: the third insertion appended its
\* label to a list that was full
C18_Witness ==
    /\ \A t \in Threads : pc[t] = "idle"
    /\ params["i1"].max_degree = 1
    /\ count["i1"] = 3
    /\ DOMAIN adjacency["i1"] = {0, 1, 2}
    /\ \A id \in 0..2 : Len(adjacency["i1"][id]) = 1
    /\ Len(returned["i1"]) = 3


\* ids up to the largest any reached index can hold
IdsInReach == 0..MaxCalls

\* C19: in every state, each id below len() of an in-memory index has a
\* vector row and an adjacency entry, and no id at or above len() has
\* either, inserts in flight or not and whichever label is inserted first.
C19_VectorIffAdjacency ==
    \A i \in InstIds :
      kind[i] = "InMemory"
        => \A id \in IdsInReach :
             IF id < ProviderLen(i)
             THEN vector_present(i, id) /\ id \in DOMAIN adjacency[i]
             ELSE ~vector_present(i, id) /\ id \notin DOMAIN adjacency[i]


\* thread t's streaming_build call gets past its header checks in this step
StreamingBuildStarts(t) ==
    /\ pc[t] = "idle"
    /\ pc'[t] = "sb_read"
    /\ call'[t].op = "streaming_build"

\* thread t's streaming_build call returns its result record in this step
StreamingBuildReturns(t) ==
    /\ call[t].op = "streaming_build"
    /\ pc[t] = "sb_pilot"
    /\ pc'[t] = "idle"
    /\ ret'[t].kind = "built"

\* what a successful build reports and holds: N, D and sample_n in the
\* result, the first sample_n input vectors in the pilot, in input order
BuildReportsSample(t) ==
    StreamingBuildReturns(t)
      => /\ ret'[t].num_vectors = call[t].input.num_vectors
         /\ ret'[t].dimension = call[t].input.dimension
         /\ ret'[t].sample_size = local[t].sample_n
         /\ ret'[t].pilot = [j \in 1..local[t].sample_n |-> j - 1]

\* C20 as stated: sample_n is the sample_size argument when that is above
\* 0 and clamp(floor(sqrt(N)), 1000, N) otherwise; a build reports
\* num_vectors = N, dimension = D, sample_size = sample_n and inserts the
\* first sample_n input vectors into the pilot.
C20_SampleSizeAsGiven ==
    [][\A t \in Threads :
         /\ StreamingBuildStarts(t)
              => local'[t].sample_n =
                   IF call'[t].sample_size > 0 THEN call'[t].sample_size
                   ELSE Min(Max(Isqrt(call'[t].input.num_vectors), 1000),
                            call'[t].input.num_vectors)
         /\ BuildReportsSample(t)
      ]_vars

\* C20 amended: sample_n is min(sample_size, N) when the sample_size
\* argument is above 0 and min(max(floor(sqrt(N)), 1000), N) otherwise; a
\* build that succeeds reports num_vectors = N, dimension = D, sample_size =
\* sample_n and has inserted the first sample_n input vectors into the pilot.
C20_SampleSizeCappedAtN ==
    [][\A t \in Threads :
         /\ StreamingBuildStarts(t)
              => LET n == call'[t].input.num_vectors
                     s == call'[t].sample_size
                 IN /\ s > 0 /\ s <= n => local'[t].sample_n = s
                    /\ s > n => local'[t].sample_n = n
                    /\ s = 0 /\ n <= 1000 => local'[t].sample_n = n
                    /\ s = 0 /\ n > 1000 /\ Isqrt(n) <= 1000 => local'[t].sample_n = 1000
                    /\ s = 0 /\ Isqrt(n) > 1000 => local'[t].sample_n = Isqrt(n)
         /\ BuildReportsSample(t)
      ]_vars

\* a build of 1002001 vectors with no sample size given has returned, its
\* pilot holding the first 1001 of them
C20_Witness ==
    /\ pc["t1"] = "idle"
    /\ call["t1"].op = "streaming_build"
    /\ call["t1"].sample_size = 0
    /\ ret["t1"].kind = "built"
    /\ ret["t1"].num_vectors = 1002001
    /\ ret["t1"].sample_size = 1001
    /\ Len(ret["t1"].pilot) = 1001


\* thread t is in the seeding branch of add (lines 244-263)
Seeding(t) == pc[t] \in {"isp_vec", "isp_adj", "isp_count", "isp_push", "materialize"}

\* thread t's add returns a label in this step
AddReturnsLabel(t) ==
    /\ call[t].op = "add"
    /\ pc[t] # "idle"
    /\ pc'[t] = "idle"
    /\ ret'[t].kind = "label"

\* C22: on a fresh index with a valid configuration, under every
\* interleaving of add calls, the engine goes from absent to present once
\* and stays, at most one add is in the seeding branch and it seeds one
\* entry point, and every add that returns a label other than the seeded one
\* returns from the engine's insert.
C22_MaterializedOnce ==
    /\ [](BuilderBuild(params["i1"])
            => /\ Cardinality({t \in Threads : Seeding(t)}) <= 1
               /\ Len(start_point_ids["i1"]) <= 1
               /\ index["i1"] => Len(start_point_ids["i1"]) = 1
               /\ (\E t \in Threads : Seeding(t)) => ~index["i1"])
    /\ [][BuilderBuild(params["i1"])
            => /\ index["i1"] => index'["i1"]
               /\ \A t \in Threads :
                    AddReturnsLabel(t)
                      => \/ /\ pc[t] = "materialize"
                            /\ ~index["i1"] /\ index'["i1"]
                            /\ start_point_ids["i1"] = <<ret'[t].label>>
                         \/ /\ pc[t] = "backedge"
                            /\ index["i1"]
                            /\ start_point_ids["i1"] # <<ret'[t].label>>
      ]_vars

\* two concurrent first adds have both returned: one seeded the entry
\* point, the other was linked by the engine
C22_Witness ==
    /\ \A t \in Threads : pc[t] = "idle" /\ call[t].op = "add" /\ ret[t].kind = "label"
    /\ calls = 2
    /\ index["i1"]
    /\ Len(start_point_ids["i1"]) = 1
    /\ count["i1"] = 2
    /\ \E id \in DOMAIN adjacency["i1"] : adjacency["i1"][id] # <<>>


\* thread t's add on index i gets past the dimension check and fetches its
\* label in this step
AddFetches(t, i) ==
    /\ pc[t] = "idle"
    /\ held[t] = i
    /\ call'[t].op = "add"
    /\ pc'[t] = "add_fast"

\* C28: the first add on an index that from_bytes rebuilt from n serialized
\* vectors is given label n; every add on an index whose engine is present
\* is given label len() and returns it, a label no earlier add returned,
\* with len() one more than that label.
C28_LabelContinuity ==
    [][\A t \in Threads : \A i \in InstIds :
         /\ AddFetches(t, i) /\ call[t].op = "from_bytes" /\ ret[t].kind = "index"
              /\ ret[t].instance = i
              => local'[t].label = Header(call[t].data).num_vectors
         /\ AddFetches(t, i) /\ index[i] => local'[t].label = ProviderLen(i)
         /\ AddReturnsLabel(t) /\ held[t] = i /\ index[i]
              => /\ ret'[t].label = local[t].label
                 /\ ret'[t].label \notin Range(returned[i])
                 /\ count'[i] = ret'[t].label + 1
      ]_vars

\* an index rebuilt from two serialized vectors has returned label 2 to
\* its first add and now holds three
C28_Witness ==
    /\ pc["t1"] = "idle"
    /\ call["t1"].op = "add"
    /\ ret["t1"] = [kind |-> "label", label |-> 2]
    /\ held["t1"] # NoInst
    /\ returned[held["t1"]] = <<2>>
    /\ count[held["t1"]] = 3


\* the input announces 0 vectors or dimension 0, or holds fewer vectors
\* than it announces
UnusableInput(in) ==
    in.exists /\ (in.num_vectors = 0 \/ in.dimension = 0 \/ in.stored < in.num_vectors)

\* C30: a streaming_build whose input announces 0 vectors or dimension 0,
\* or holds fewer than N vectors after the header, returns an error, and no
\* step of it creates or truncates the file at the output path.
C30_UnusableInputWritesNothing ==
    /\ [](\A t \in Threads :
            pc[t] = "idle" /\ call[t].op = "streaming_build"
              /\ UnusableInput(call[t].input)
              => ret[t].kind = "err")
    /\ [][\A t \in Threads :
            call'[t].op = "streaming_build" /\ UnusableInput(call'[t].input)
              => fs' = fs
         ]_vars

\* a build over an input one vector short has read its sample, failed in
\* the stream phase and left the earlier file at the output path as it was
C30_Witness ==
    /\ pc["t1"] = "idle"
    /\ call["t1"].op = "streaming_build"
    /\ call["t1"].input.stored = 2
    /\ call["t1"].input.num_vectors = 3
    /\ call["t1"].path = "a.diskann"
    /\ ret["t1"] = [kind |-> "err", msg |-> "Failed to read streaming vector"]
    /\ fs["a.diskann"] = SampleFile


\* thread t's create_index or load_index inserts into the registry and
\* returns ok in this step
InsertsBinding(t) ==
    /\ pc[t] \in {"create_insert", "load_insert"}
    /\ pc'[t] = "idle"
    /\ ret'[t] = Done

\* C26: under every interleaving of create and load calls, a call returns
\* success only for a name that is unbound at that moment: no create or
\* load replaces the instance another successful call bound to the name.
C26_AtomicNameBinding ==
    [][\A t \in Threads :
         InsertsBinding(t)
           => /\ INDEXES[call[t].name] = NoInst
              /\ INDEXES'[call[t].name] # NoInst
      ]_vars


\* C27: whatever adds run beside it, the bytes serialize_to_bytes returns
\* have the length their header implies, 32 + 4*E + 4*N*D + 4*N*R: the
\* vector and adjacency segments hold the N rows the header announces.
C27_SaveSelfConsistent ==
    \A t \in Threads :
       pc[t] = "idle" /\ call[t].op = "serialize" /\ ret[t].kind = "bytes"
         => ByteLen(ret[t].data) = total_file_size(Header(ret[t].data))


\* C29: under fair scheduling every add call that has started returns, and
\* an add that waits for the write lock of the engine gate holds no read
\* guard of it.
C29_AddReturns ==
    /\ [](\A t \in Threads :
            pc[t] = "add_slow" => t \notin gate_readers[Target(t)])
    /\ \A t \in Threads :
         (call[t].op = "add" /\ pc[t] # "idle") ~> (pc[t] = "idle")

\* one add waits for the write lock while the other thread holds the gate
C29_Witness ==
    \E t \in Threads :
       /\ pc[t] = "add_slow"
       /\ call[t].op = "add"
       /\ gate_writer[Target(t)] \in Threads \ {t}


\* thread t calls quantize_sq8 on a provider that has rows to quantize
Quantizes(t) ==
    /\ pc[t] = "idle"
    /\ call'[t].op = "quantize"
    /\ reg_calls' = reg_calls + 1
    /\ count[held[t]] > 0

\* C24: once a provider is quantized, a further quantize call leaves the
\* SQ8 parameters (min, scale) and the encoded buffer as they are, whether
\* or not vectors were inserted since.
C24_QuantizeOneShot ==
    [][\A t \in Threads :
          Quantizes(t) /\ quantized[held[t]].active
            => quantized'[held[t]] = quantized[held[t]]]_vars

RowsOf(t) == call[t].adj.sample \o call[t].adj.stream

\* thread t is inside the graph phases of streaming_build
InGraphBuild(t) ==
    call[t].op = "streaming_build" /\ pc[t] \in {"sg_stream", "sg_back", "add_fast",
       "add_slow", "isp_vec", "isp_adj", "isp_count", "isp_push", "materialize",
       "set_vec", "set_adj", "set_count", "link", "backedge"}
       /\ call[t].phase = "stream"

\* every neighbor of every row is a node of the n input vectors other than
\* the row's own, and no row has more than deg ids
WellFormedRows(rows, n, deg) ==
    \A x \in 1..Len(rows) :
       /\ Len(rows[x]) <= deg
       /\ \A j \in Range(rows[x]) : j >= 0 /\ j < n /\ j # x - 1

\* thread t injects one back-edge in this step
Injects(t) ==
    /\ pc[t] = "sg_back"
    /\ call[t].back_edges # <<>>
    /\ call'[t].back_edges = Tail(call[t].back_edges)

\* row after is row before with one id pushed or with one slot rewritten
OneSlotChanged(before, after) ==
    \/ Len(after) = Len(before) + 1 /\ SubSeq(after, 1, Len(before)) = before
    \/ /\ Len(after) = Len(before)
       /\ Cardinality({s \in 1..Len(before) : after[s] # before[s]}) = 1

\* C23: the rows streaming_build holds, before and after every back-edge
\* injection, and the rows it writes are well formed: neighbors are nodes
\* below N other than the row's own, at most R per row; and each back-edge
\* injection changes one slot of exactly one row.
C23_WellFormedAdjacency ==
    /\ [](\A t \in Threads :
            /\ InGraphBuild(t)
                 => WellFormedRows(RowsOf(t), Len(call[t].input),
                                   call[t].params.max_degree)
            /\ pc[t] = "idle" /\ ret[t].kind = "built"
                 => /\ Len(fs[call[t].path].adjacency) = Len(call[t].input)
                    /\ WellFormedRows(fs[call[t].path].adjacency, Len(call[t].input),
                                      call[t].params.max_degree))
    /\ [][\A t \in Threads :
            Injects(t) =>
              /\ Len(RowsOf(t)') = Len(RowsOf(t))
              /\ \E x \in 1..Len(RowsOf(t)) :
                    /\ OneSlotChanged(RowsOf(t)[x], RowsOf(t)'[x])
                    /\ \A y \in 1..Len(RowsOf(t)) \ {x} : RowsOf(t)'[y] = RowsOf(t)[y]]_vars

\* all back-edges injected: a sample row and a streamed row each hold a
\* back-edge, and one row was full when its back-edge came
C23_Witness ==
    \E t \in Threads :
       /\ call[t].op = "streaming_build"
       /\ pc[t] = "sg_back"
       /\ call[t].back_edges = <<>>
       /\ \E x \in 1..call[t].sample_n :
             \E g \in Range(call[t].adj.sample[x]) : g >= call[t].sample_n
       /\ \E x \in 1..Len(call[t].adj.stream) :
             \E g \in Range(call[t].adj.stream[x]) : g > call[t].sample_n + x - 1
       /\ \E x \in 1..Len(RowsOf(t)) : Len(RowsOf(t)[x]) = call[t].params.max_degree

\* the nodes reached from the ids in seen along the rows
RECURSIVE ReachableFrom(_, _)
ReachableFrom(rows, seen) ==
    LET next == seen \cup UNION { Range(rows[x + 1]) : x \in seen }
    IN  IF next = seen THEN seen ELSE ReachableFrom(rows, next)

\* C21: in the file streaming_build writes, every streamed id whose own row
\* is not empty is a neighbor in the row of another node that is reachable
\* from the entry points.
C21_StreamedVectorsReachable ==
    \A t \in Threads :
       pc[t] = "idle" /\ call[t].op = "streaming_build" /\ ret[t].kind = "built"
         => LET f == fs[call[t].path]
                reach == ReachableFrom(f.adjacency, Range(f.entry_points))
            IN  \A g \in call[t].sample_n..(f.num_vectors - 1) :
                   f.adjacency[g + 1] # <<>>
                     => \E j \in reach : j # g /\ g \in Range(f.adjacency[j + 1])

=============================================================================
